---- MODULE Spec2Model ----
(***************************************************************************)
(* The interactive collection / cancellation protocol of the WWII video    *)
(* automation: TelegramCollector (workflow_manager.py) gathers title,      *)
(* description, tags and script; VideoProducer with its TelegramInterface  *)
(* (create_video.py) then gathers the segment media, background music,     *)
(* channel logo and thumbnail.  The chat transport (Telegram Bot API) is   *)
(* the environment: it keeps the updates that no getUpdates call has       *)
(* confirmed yet and answers getUpdates(offset) with them.                 *)
(***************************************************************************)
EXTENDS Integers, Sequences, FiniteSets, TLC

(***************************************************************************)
(* Bounds of the model.                                                    *)
(***************************************************************************)
\* updates the chat transport receives during one run
MaxUpdates == 4
\* updates the chat transport holds unconfirmed at any one time
MaxPending == 2
\* audio segments of the narration (an input of collect_media)
NumSegments == 1
\* seconds that may pass between two neighbouring statements
MaxTick == 1

(***************************************************************************)
(* Messages.  A message carries the chat it comes from, an optional text   *)
(* and an optional attachment; dl tells whether the transport can hand     *)
(* out the attachment's file (getFile answers ok).  An update may also      *)
(* carry no 'message' key at all.                                          *)
(***************************************************************************)
ChatId == "me"

Msg(chat, text, att, dl) ==
    [msg |-> TRUE, chat |-> chat, text |-> text, att |-> att, dl |-> dl]

NoMessage ==
    [msg |-> FALSE, chat |-> "none", text |-> "", att |-> "none", dl |-> FALSE]

\* what the operator (or somebody else) may send
Sendable ==
    { Msg("me", "Hello", "none", FALSE),
      Msg("me", "World", "none", FALSE),
      Msg("me", "Pronto", "none", FALSE),
      Msg("me", "Cancelar", "none", FALSE),
      Msg("me", "PULAR", "none", FALSE),
      Msg("me", "", "photo", TRUE),
      Msg("me", "", "audio", FALSE),
      Msg("me", "", "doc_txt", TRUE),
      Msg("peer", "Cancelar", "none", FALSE),
      NoMessage }

(***************************************************************************)
(* str.strip, str.lower and str.upper on the texts of the vocabulary.      *)
(***************************************************************************)
Strip(s) == IF s = " " THEN "" ELSE s

Lower(s) ==
    CASE s = "Hello" -> "hello"
      [] s = "World" -> "world"
      [] s = "Pronto" -> "pronto"
      [] s = "Cancelar" -> "cancelar"
      [] s = "PULAR" -> "pular"
      [] OTHER -> s

Upper(s) ==
    CASE s = "Hello" -> "HELLO"
      [] s = "World" -> "WORLD"
      [] s = "Pronto" -> "PRONTO"
      [] s = "Cancelar" -> "CANCELAR"
      [] s = "fim" -> "FIM"
      [] OTHER -> s

CancelWords == {"/cancel", "/cancelar", "cancel", "cancelar"}
SkipWords == {"/skip", "skip", "/pular", "pular"}
DoneWords == {"PRONTO", "DONE", "FIM", "FINISH"}

\* message.get('text', '').strip().lower() in [cancel words]
IsCancelText(m) == Lower(Strip(m.text)) \in CancelWords

\* message.get('text', '').strip().lower() in [skip words]
IsSkipText(m) == Lower(Strip(m.text)) \in SkipWords

\* ' '.join(parts), a wrong join kept for comparison with Join
RECURSIVE JoinBlank(_)
JoinBlank(parts) ==
    IF Len(parts) = 0 THEN <<>>
    ELSE IF Len(parts) = 1 THEN <<parts[1]>>
    ELSE <<parts[1], " ">> \o JoinBlank(Tail(parts))

\* '\n'.join(parts): the joined text as the sequence of its pieces
RECURSIVE Join(_)
Join(parts) ==
    IF Len(parts) = 0 THEN <<>>
    ELSE IF Len(parts) = 1 THEN <<parts[1]>>
    ELSE <<parts[1], "\n">> \o Join(Tail(parts))

\* content_resp.text of a downloaded .txt document
FileText == <<"file content">>

VARIABLES
    server,          \* the transport's unconfirmed updates, ascending update_id
    next_id,         \* update_id of the next update the transport receives
    collector,       \* TelegramCollector: update_offset, cancelled
    telegram,        \* TelegramInterface: update_offset, cancelled
    cancel_flag,     \* productions/cancel_flag.json: "absent" or "cancelled"
    pc,              \* the Field Request (or step) the run is at
    seg,             \* segment_num of the current media request
    loc,             \* place in the wait loop: "head" or "poll"
    clock,           \* elapsed time of the wait, abstracted: "start", "early", "late"
    roteiro_partes,  \* accumulator of collect_script_multipart
    result,          \* the Field Request that ended last, and how it ended
    script,          \* the value collect_script_multipart returned
    script_by,       \* what ended it: "terminator", "file", "timeout", "none"
    hist,            \* history of the run, for the properties (see HistInit)
    exit_code,       \* result of main: -1 while running
    wait,            \* one wait loop against the wall clock (see WaitInit)
    hook,            \* telegram_bot.py: the webhook's last request (see HookInit)
    tts,             \* generate_video.py: criar_audio (see TtsInit)
    segmenter,       \* VideoProducer.segment_audio (see SegmenterInit)
    youtube          \* VideoProducer.upload_to_youtube (see YoutubeInit)

vars == <<server, next_id, collector, telegram, cancel_flag, pc, seg, loc, clock,
          roteiro_partes, result, script, script_by, hist, exit_code, wait,
          hook, tts, segmenter, youtube>>

\* criar_audio before it is called
TtsInit ==
    [pc |-> "idle", tentativa |-> 0, file |-> "missing", ret |-> "none",
     log |-> <<>>]                  \* what happened so far, in order

\* segment_audio before it is called
SegmenterInit ==
    [pc |-> "idle", total_duration |-> 0, segment_duration |-> 1,
     num_segments |-> 0, i |-> 0, segments |-> <<>>]

\* upload_to_youtube before it is called
YoutubeInit ==
    [pc |-> "idle",
     thumbnail_path |-> "none",     \* "none", "missing" (no such file), "file"
     error_msg |-> <<>>,            \* str(e) of the failure, as words
     before |-> <<>>,               \* pending_thumbnails.json at the call
     pending_thumbs |-> <<>>,       \* pending_thumbnails.json
     log |-> <<>>,                  \* the notices sent, in order
     ret |-> "none"]                \* "url" or "raises"

\* production_data before anything is parsed
NoData == [title |-> "", script |-> <<>>]

\* the webhook before its first request
HookInit ==
    [text |-> <<>>,                 \* lines of the message being written
     update |-> [kind |-> "none", chat |-> "none", text |-> <<>>],
                                    \* the update handled last
     log |-> <<>>]                  \* what the handler did for it, in order

(***************************************************************************)
(* Field Requests and the operations that look at updates.                 *)
(***************************************************************************)
Req(op, n) == <<op, n>>

MediaReqs == {Req("media", i) : i \in 1..NumSegments}

Requests ==
    {Req("title", 0), Req("description", 0), Req("tags", 0), Req("script", 0),
     Req("music", 0), Req("logo", 0), Req("thumbnail", 0)} \cup MediaReqs

\* the request the run is at
Current == Req(pc, IF pc = "media" THEN seg ELSE 0)

Ids(us) == {us[i].update_id : i \in 1..Len(us)}

\* position of the first update a loop stops at, 0 when it runs to the end
First(us, Stop(_)) ==
    IF \E i \in 1..Len(us) : Stop(us[i])
    THEN CHOOSE i \in 1..Len(us) : Stop(us[i]) /\ \A j \in 1..(i - 1) : ~Stop(us[j])
    ELSE 0

\* the updates a loop looks at when it stops at position k
Looked(us, k) == IF k = 0 THEN us ELSE SubSeq(us, 1, k)

\* a wrong cursor rule kept for comparison with OffsetAfter: a round that
\* looked at nothing loses the cursor
OffsetAfterLost(offset, us) ==
    IF Len(us) = 0 THEN 0 ELSE us[Len(us)].update_id + 1

\* self.update_offset = update['update_id'] + 1, for every update looked at
OffsetAfter(offset, us) ==
    IF Len(us) = 0 THEN offset ELSE us[Len(us)].update_id + 1

(***************************************************************************)
(* The chat transport.  getUpdates(offset) confirms (forgets) the updates  *)
(* whose update_id is below a positive offset and returns the others in    *)
(* ascending update_id order; offset 0 returns every unconfirmed update.   *)
(***************************************************************************)
\* a wrong transport kept for comparison with GetUpdates: the offset is
\* ignored and every update still held is returned again
GetUpdatesAgain(offset) == server

GetUpdates(offset) == SelectSeq(server, LAMBDA u : u.update_id >= offset)

\* outcomes of one getUpdates request
Responses == {"ok", "not_ok", "error"}

\* the Field Requests that wait_for_message serves
WaitOps == {"title", "description", "tags"}

\* the Field Requests that may be skipped
Skippable == {"music", "logo", "thumbnail"}

\* the requests whose history the properties follow
AnswerOps == WaitOps \cup Skippable

\* somebody sends a message to the bot; at: the request that is waiting when
\* it arrives
OperatorSend(m) ==
    /\ next_id <= MaxUpdates
    /\ pc # "exit"
    /\ Len(server) < MaxPending
    /\ server' = Append(server, [update_id |-> next_id, m |-> m, by |-> {},
                                  at |-> IF pc \in AnswerOps THEN pc ELSE "-"])
    /\ next_id' = next_id + 1
    /\ UNCHANGED <<wait, hook, tts, segmenter, youtube>>
    /\ UNCHANGED <<collector, telegram, cancel_flag, pc, seg, loc, clock,
                   roteiro_partes, result, script, script_by, exit_code, hist>>

\* history: the operation tag looked at the updates seen, among the updates us
Mark(tag, us, seen) ==
    [i \in 1..Len(us) |->
        IF us[i].update_id \in Ids(seen) THEN [us[i] EXCEPT !.by = @ \cup {tag}]
        ELSE us[i]]

(***************************************************************************)
(* TelegramCollector.check_for_cancel                                      *)
(***************************************************************************)
CollectorCancelStop(u) == u.m.msg /\ u.m.chat = ChatId /\ IsCancelText(u.m)

\* the loop over the updates: wr tells whether the flag file can be written
CollectorCheckScan(offset, us, wr) ==
    LET k == First(us, CollectorCancelStop)
        seen == Looked(us, k)
    IN  [ret |-> k # 0 /\ wr,
         hit |-> k # 0,
         update_offset |-> OffsetAfter(offset, seen),
         seen |-> seen]

(***************************************************************************)
(* TelegramCollector.wait_for_message: the loop over one batch             *)
(***************************************************************************)
MessageStop(u) == u.m.msg /\ u.m.chat = ChatId /\ Strip(u.m.text) # ""

WaitForMessageScan(offset, us, wr) ==
    LET k == First(us, MessageStop)
        seen == Looked(us, k)
    IN  [kind |-> IF k = 0 THEN "none"
                  ELSE IF Lower(Strip(us[k].m.text)) \in CancelWords
                       THEN (IF wr THEN "cancelled" ELSE "write_error")
                       ELSE "received",
         text |-> IF k = 0 THEN "" ELSE Strip(us[k].m.text),
         update_offset |-> OffsetAfter(offset, seen),
         seen |-> seen]

(***************************************************************************)
(* TelegramCollector.collect_script_multipart: the loop over one batch,    *)
(* from position i on, with the parts accumulated so far.  n is the number *)
(* of updates looked at.                                                   *)
(***************************************************************************)
\* a wrong loop kept for comparison with ScriptScan: a terminator ends the
\* request even when no part has been collected
RECURSIVE ScriptScanEager(_, _, _)
ScriptScanEager(us, i, partes) ==
    IF i > Len(us) THEN [kind |-> "more", partes |-> partes, n |-> Len(us)]
    ELSE LET m == us[i].m
             text == Strip(m.text)
         IN  IF ~m.msg \/ m.chat # ChatId THEN ScriptScanEager(us, i + 1, partes)
             ELSE IF m.att = "doc_txt" /\ m.dl
                  THEN [kind |-> "file", partes |-> partes, n |-> i]
             ELSE IF text = "" THEN ScriptScanEager(us, i + 1, partes)
             ELSE IF Lower(text) \in CancelWords
                  THEN [kind |-> "cancelled", partes |-> partes, n |-> i]
             ELSE IF Upper(text) \in DoneWords
                  THEN [kind |-> "done", partes |-> partes, n |-> i]
             ELSE ScriptScanEager(us, i + 1, Append(partes, text))

RECURSIVE ScriptScan(_, _, _)
ScriptScan(us, i, partes) ==
    IF i > Len(us) THEN [kind |-> "more", partes |-> partes, n |-> Len(us)]
    ELSE LET m == us[i].m
             text == Strip(m.text)
         IN  IF ~m.msg \/ m.chat # ChatId THEN ScriptScan(us, i + 1, partes)
             ELSE IF m.att = "doc_txt" /\ m.dl
                  THEN [kind |-> "file", partes |-> partes, n |-> i]
             ELSE IF text = "" THEN ScriptScan(us, i + 1, partes)
             ELSE IF Lower(text) \in CancelWords
                  THEN [kind |-> "cancelled", partes |-> partes, n |-> i]
             ELSE IF Upper(text) \in DoneWords
                  THEN IF Len(partes) = 0
                       THEN ScriptScan(us, i + 1, partes)
                       ELSE [kind |-> "done", partes |-> partes, n |-> i]
             ELSE ScriptScan(us, i + 1, Append(partes, text))

(***************************************************************************)
(* main and collect_video_info of workflow_manager.py                      *)
(***************************************************************************)
\* a wrong order kept for comparison with NextOf: the description is asked
\* for after the tags
NextOfSwapped(op) ==
    CASE op = "title" -> "tags"
      [] op = "tags" -> "description"
      [] op = "description" -> "script"

\* collect_video_info: the request that follows op
NextOf(op) ==
    CASE op = "title" -> "description"
      [] op = "description" -> "tags"
      [] op = "tags" -> "script"

\* main returns: the run is over
Exit(code) ==
    /\ pc' = "exit"
    /\ exit_code' = code
    /\ loc' = "head"
    /\ clock' = "start"

\* a wait loop goes round: back to its head
Again(c) ==
    /\ loc' = "head"
    /\ clock' = c
    /\ UNCHANGED <<wait, hook, tts, segmenter, youtube>>
    /\ UNCHANGED <<pc, exit_code>>

\* collect_video_info up to the title prompt: the old flag file is removed
CollectStart ==
    /\ pc = "start"
    /\ cancel_flag' = "absent"
    /\ pc' = "title"
    /\ loc' = "head"
    /\ clock' = "start"
    /\ UNCHANGED <<wait, hook, tts, segmenter, youtube>>
    /\ UNCHANGED <<server, next_id, collector, telegram, seg, roteiro_partes,
                   result, script, script_by, exit_code, hist>>

\* history: a check_for_cancel call consumed an answer to the request that
\* was waiting when the answer arrived
DropsAnswer(seen) ==
    \E i \in 1..Len(seen) :
        /\ MessageStop(seen[i])
        /\ ~IsCancelText(seen[i].m)
        /\ seen[i].at = pc

\* a wrong check kept for comparison with CollectorCheckForCancel: the flag
\* file is written but the call reports nothing
CollectorCheckSilent(tag, resp, wr) ==
    LET us == IF resp = "ok" THEN GetUpdates(collector.update_offset) ELSE <<>>
        r == CollectorCheckScan(collector.update_offset, us, wr)
    IN  [server |-> IF resp = "ok" THEN Mark(tag, us, r.seen) ELSE server,
         object |-> [update_offset |-> r.update_offset,
                     cancelled |-> collector.cancelled \/ r.hit],
         cancel_flag |-> IF r.ret THEN "cancelled" ELSE cancel_flag,
         polled |-> TRUE,
         write_failed |-> r.hit /\ ~wr,
         seen |-> r.seen,
         ret |-> FALSE]

\* a wrong check kept for comparison with CollectorCheckForCancel: a call
\* that finds no cancel keyword clears the flag file
CollectorCheckClearing(tag, resp, wr) ==
    LET us == IF resp = "ok" THEN GetUpdates(collector.update_offset) ELSE <<>>
        r == CollectorCheckScan(collector.update_offset, us, wr)
    IN  [server |-> IF resp = "ok" THEN Mark(tag, us, r.seen) ELSE server,
         object |-> [update_offset |-> r.update_offset,
                     cancelled |-> collector.cancelled \/ r.hit],
         cancel_flag |-> IF r.ret THEN "cancelled" ELSE "absent",
         polled |-> TRUE,
         write_failed |-> r.hit /\ ~wr,
         seen |-> r.seen,
         ret |-> r.ret]

\* TelegramCollector.check_for_cancel, one call: what it leaves behind at the
\* server, in the object and on disk, and what it returns
CollectorCheckForCancel(tag, resp, wr) ==
    LET us == IF resp = "ok" THEN GetUpdates(collector.update_offset) ELSE <<>>
        r == CollectorCheckScan(collector.update_offset, us, wr)
    IN  [server |-> IF resp = "ok" THEN Mark(tag, us, r.seen) ELSE server,
         object |-> [update_offset |-> r.update_offset,
                     cancelled |-> collector.cancelled \/ r.hit],
         cancel_flag |-> IF r.ret THEN "cancelled" ELSE cancel_flag,
         polled |-> TRUE,
         write_failed |-> r.hit /\ ~wr,
         seen |-> r.seen,
         ret |-> r.ret]

\* wait_for_message: the periodic check_for_cancel
CollectorCancelCheckOn(resp, wr) ==
    /\ pc \in WaitOps /\ loc = "head" /\ clock # "start"
    /\  LET c == CollectorCheckForCancel(<<pc, 0, "check">>, resp, wr)
        IN  /\ server' = c.server
            /\ collector' = c.object
            /\ cancel_flag' = c.cancel_flag
            /\ hist' = [hist EXCEPT !.write_failed = @ \/ c.write_failed,
                                    !.dropped = @ \/ DropsAnswer(c.seen)]
            /\ IF c.ret
               THEN /\ result' = [req |-> Current, kind |-> "cancelled"]
                    /\ Exit(1)
               ELSE /\ result' = result
                    /\ loc' = "poll"
                    /\ UNCHANGED <<pc, exit_code, clock>>
    /\ UNCHANGED <<wait, hook, tts, segmenter, youtube>>
    /\ UNCHANGED <<next_id, telegram, seg, roteiro_partes, script, script_by>>

CollectorCancelCheck ==
    \E resp \in Responses, wr \in BOOLEAN : CollectorCancelCheckOn(resp, wr)

\* wait_for_message: no cancel check is due in this round
CollectorNoCheck ==
    /\ pc \in WaitOps /\ loc = "head" /\ clock \in {"start", "early"}
    /\ loc' = "poll"
    /\ UNCHANGED <<wait, hook, tts, segmenter, youtube>>
    /\ UNCHANGED <<server, next_id, collector, telegram, cancel_flag, pc, seg,
                   clock, roteiro_partes, result, script, script_by,
                   exit_code, hist>>

\* wait_for_message: the loop ends on its timeout, collect_video_info gives up
MessageTimeout ==
    /\ pc \in WaitOps /\ loc = "head" /\ clock # "start"
    /\ result' = [req |-> Current, kind |-> "timeout"]
    /\ Exit(1)
    /\ UNCHANGED <<wait, hook, tts, segmenter, youtube>>
    /\ UNCHANGED <<server, next_id, collector, telegram, cancel_flag, seg,
                   roteiro_partes, script, script_by, hist>>

\* wait_for_message: one long poll and the loop over its updates
MessagePollOn(resp, wr) ==
    /\ pc \in WaitOps /\ loc = "poll"
    /\  LET us == IF resp = "ok" THEN GetUpdates(collector.update_offset) ELSE <<>>
            r == WaitForMessageScan(collector.update_offset, us, wr)
        IN  /\ server' = IF resp = "ok" THEN Mark(<<pc, 0, "wait">>, us, r.seen)
                          ELSE server
            /\ collector' = [update_offset |-> r.update_offset,
                             cancelled |-> collector.cancelled
                                           \/ r.kind \in {"cancelled", "write_error"}]
            /\ cancel_flag' = IF r.kind = "cancelled" THEN "cancelled" ELSE cancel_flag
            /\ hist' = [hist EXCEPT !.write_failed = @ \/ r.kind = "write_error"]
            /\ CASE r.kind = "received" ->
                        /\ result' = [req |-> Current, kind |-> "received"]
                        /\ pc' = NextOf(pc)
                        /\ loc' = "head"
                        /\ clock' = "start"
                        /\ UNCHANGED exit_code
                 [] r.kind = "cancelled" ->
                        /\ result' = [req |-> Current, kind |-> "cancelled"]
                        /\ Exit(1)
                 [] r.kind = "write_error" ->
                        /\ result' = result
                        /\ Again("late")
                 [] r.kind = "none" ->
                        /\ result' = result
                        /\ Again(IF resp = "error" \/ (resp = "ok" /\ Len(us) = 0)
                                 THEN "late" ELSE "early")
    /\ UNCHANGED <<wait, hook, tts, segmenter, youtube>>
    /\ UNCHANGED <<next_id, telegram, seg, roteiro_partes, script, script_by>>

MessagePoll == \E resp \in Responses, wr \in BOOLEAN : MessagePollOn(resp, wr)

\* a wrong order kept for comparison with RecordAfter: the production file
\* is written before the script is tested
RecordAfterAny(h, roteiro) == [h EXCEPT !.record = "collected"]

\* collect_video_info after collect_script_multipart returned roteiro: with
\* no script it gives up, otherwise it writes the production file
RecordAfter(h, roteiro) ==
    IF Len(roteiro) = 0 THEN h ELSE [h EXCEPT !.record = "collected"]

\* history: the script parts among the updates a poll of the script request looked at
IsPart(u) ==
    /\ u.m.msg /\ u.m.chat = ChatId
    /\ u.m.text \notin {"", " "}
    /\ ~IsCancelText(u.m)
    /\ Upper(Strip(u.m.text)) \notin DoneWords

PartTexts(us) ==
    LET ps == SelectSeq(us, IsPart) IN [i \in 1..Len(ps) |-> Strip(ps[i].m.text)]

\* collect_script_multipart: one long poll and the loop over its updates
ScriptPollOn(resp) ==
    /\ pc = "script"
    /\  LET us == IF resp = "ok" THEN GetUpdates(collector.update_offset) ELSE <<>>
            r == ScriptScan(us, 1, roteiro_partes)
            seen == SubSeq(us, 1, r.n)
        IN  /\ server' = IF resp = "ok" THEN Mark(<<pc, 0, "wait">>, us, seen)
                          ELSE server
            /\ collector' = [collector EXCEPT
                                !.update_offset = OffsetAfter(@, seen)]
            /\ hist' = RecordAfter([hist EXCEPT !.script_in = @ \o PartTexts(seen)],
                                   CASE r.kind = "file" -> FileText
                                     [] r.kind = "done" -> Join(r.partes)
                                     [] OTHER -> <<>>)
            /\ CASE r.kind = "file" ->
                        /\ script' = FileText
                        /\ script_by' = "file"
                        /\ result' = [req |-> Current, kind |-> "received"]
                        /\ pc' = "audio"
                        /\ UNCHANGED <<roteiro_partes, loc, clock, exit_code>>
                 [] r.kind = "done" ->
                        /\ script' = Join(r.partes)
                        /\ script_by' = "terminator"
                        /\ roteiro_partes' = r.partes
                        /\ result' = [req |-> Current, kind |-> "received"]
                        /\ pc' = "audio"
                        /\ UNCHANGED <<loc, clock, exit_code>>
                 [] r.kind = "cancelled" ->
                        /\ result' = [req |-> Current, kind |-> "cancelled"]
                        /\ roteiro_partes' = r.partes
                        /\ Exit(1)
                        /\ UNCHANGED <<script, script_by>>
                 [] r.kind = "more" ->
                        /\ roteiro_partes' = r.partes
                        /\ Again(IF resp = "error" \/ (resp = "ok" /\ Len(us) = 0)
                                 THEN "late" ELSE "early")
                        /\ UNCHANGED <<result, script, script_by>>
    /\ UNCHANGED <<wait, hook, tts, segmenter, youtube>>
    /\ UNCHANGED <<next_id, telegram, cancel_flag, seg>>

ScriptPoll == \E resp \in Responses : ScriptPollOn(resp)

\* a wrong ending kept for comparison with ScriptTimeout: the parts
\* collected are thrown away when the time is up
ScriptTimeoutEmpty ==
    /\ pc = "script" /\ clock # "start"
    /\ result' = [req |-> Current, kind |-> "timeout"]
    /\ Exit(1)
    /\ hist' = RecordAfter(hist, <<>>)
    /\ UNCHANGED <<wait, hook, tts, segmenter, youtube>>
    /\ UNCHANGED <<server, next_id, collector, telegram, cancel_flag, seg,
                   roteiro_partes, script, script_by>>

\* collect_script_multipart: the loop ends on its timeout
ScriptTimeout ==
    /\ pc = "script" /\ clock # "start"
    /\ IF Len(roteiro_partes) > 0
       THEN /\ script' = Join(roteiro_partes)
            /\ script_by' = "timeout"
            /\ result' = [req |-> Current, kind |-> "received"]
            /\ pc' = "audio"
            /\ UNCHANGED <<loc, clock, exit_code>>
       ELSE /\ result' = [req |-> Current, kind |-> "timeout"]
            /\ Exit(1)
            /\ UNCHANGED <<script, script_by>>
    /\ hist' = RecordAfter(hist, Join(roteiro_partes))
    /\ UNCHANGED <<wait, hook, tts, segmenter, youtube>>
    /\ UNCHANGED <<server, next_id, collector, telegram, cancel_flag, seg,
                   roteiro_partes>>

(***************************************************************************)
(* create_video.py: run_production, VideoProducer and TelegramInterface    *)
(***************************************************************************)
ProdOps == {"media", "music", "logo", "thumbnail"}

\* the attachments a request takes
Wanted(op) ==
    CASE op = "media" -> {"photo", "video", "doc_img"}
      [] op = "music" -> {"audio", "doc_audio"}
      [] op = "logo" -> {"photo", "doc_img"}
      [] op = "thumbnail" -> {"photo", "doc_img"}

\* VideoProducer.__init__ and run up to collect_media: ok tells whether the
\* narration audio could be generated and segmented
ProductionStart ==
    /\ pc = "audio"
    /\ telegram' = [update_offset |-> 0, cancelled |-> FALSE]
    /\ \E ok \in BOOLEAN :
        IF ok
        THEN /\ pc' = "media"
             /\ loc' = "head"
             /\ clock' = "start"
             /\ UNCHANGED exit_code
        ELSE Exit(1)
    /\ seg' = 1
    /\ UNCHANGED <<wait, hook, tts, segmenter, youtube>>
    /\ UNCHANGED <<server, next_id, collector, cancel_flag, roteiro_partes,
                   result, script, script_by, hist>>

\* the request after the current one: collect_media's loop, then run's steps
Proceed ==
    /\ loc' = "head"
    /\ clock' = "start"
    /\ UNCHANGED exit_code
    /\ CASE pc = "media" ->
                IF seg < NumSegments
                THEN seg' = seg + 1 /\ pc' = pc
                ELSE seg' = seg /\ pc' = "music"
         [] pc = "music" -> seg' = seg /\ pc' = "logo"
         [] pc = "logo" -> seg' = seg /\ pc' = "render"
         [] pc = "thumbnail" -> seg' = seg /\ pc' = "upload"

\* TelegramInterface.check_for_cancel: the loop over the updates
InterfaceCheckScan(offset, us, wr) ==
    LET k == First(us, CollectorCancelStop)
        seen == Looked(us, k)
    IN  [ret |-> k # 0 /\ wr,
         hit |-> k # 0,
         update_offset |-> OffsetAfter(offset, seen),
         seen |-> seen]

\* TelegramInterface.check_for_cancel, one call: what it leaves behind at the
\* server, in the object and on disk, and what it returns
InterfaceCheckForCancel(tag, resp, wr) ==
    IF cancel_flag # "absent"
    THEN [server |-> server, object |-> telegram, cancel_flag |-> cancel_flag,
          polled |-> FALSE, write_failed |-> FALSE, seen |-> <<>>, ret |-> TRUE]
    ELSE LET us == IF resp = "ok" THEN GetUpdates(telegram.update_offset) ELSE <<>>
             r == InterfaceCheckScan(telegram.update_offset, us, wr)
         IN  [server |-> IF resp = "ok" THEN Mark(tag, us, r.seen) ELSE server,
              object |-> [update_offset |-> r.update_offset,
                          cancelled |-> telegram.cancelled \/ r.hit],
              cancel_flag |-> IF r.ret THEN "cancelled" ELSE cancel_flag,
              polled |-> TRUE,
              write_failed |-> r.hit /\ ~wr,
              seen |-> r.seen,
              ret |-> r.ret]

\* history: among the updates us there is a skip keyword that arrived while
\* the current request was waiting
SawSkip(us) ==
    \E i \in 1..Len(us) :
        /\ us[i].m.msg /\ us[i].at = pc
        /\ Lower(Strip(us[i].m.text)) \in {"/skip", "skip", "/pular", "pular"}

\* the waits of the production: the periodic check_for_cancel
ProducerCancelCheckOn(resp, wr) ==
    /\ pc \in ProdOps /\ loc = "head" /\ clock # "start"
    /\  LET c == InterfaceCheckForCancel(<<Current[1], Current[2], "check">>, resp, wr)
            h == IF hist.call = Current THEN hist
                 ELSE [hist EXCEPT !.call = Current, !.skip = FALSE, !.files = 0]
        IN  /\ server' = c.server
            /\ telegram' = c.object
            /\ cancel_flag' = c.cancel_flag
            /\ hist' = [h EXCEPT
                   !.write_failed = @ \/ c.write_failed,
                   !.skip = @ \/ (pc \in Skippable /\ SawSkip(c.seen))]
            /\ IF c.ret
               THEN /\ result' = [req |-> Current, kind |-> "cancelled"]
                    /\ Exit(1)
               ELSE /\ result' = result
                    /\ loc' = "poll"
                    /\ UNCHANGED <<pc, exit_code, clock>>
    /\ UNCHANGED <<wait, hook, tts, segmenter, youtube>>
    /\ UNCHANGED <<next_id, collector, seg, roteiro_partes, script, script_by>>

ProducerCancelCheck ==
    \E resp \in Responses, wr \in BOOLEAN : ProducerCancelCheckOn(resp, wr)

\* the waits of the production: no cancel check is due in this round
ProducerNoCheck ==
    /\ pc \in ProdOps /\ loc = "head" /\ clock \in {"start", "early"}
    /\ loc' = "poll"
    /\ UNCHANGED <<wait, hook, tts, segmenter, youtube>>
    /\ UNCHANGED <<server, next_id, collector, telegram, cancel_flag, pc, seg,
                   clock, roteiro_partes, result, script, script_by,
                   exit_code, hist>>

\* a wrong entry kept for comparison with MediaEntry: a segment without
\* media gets no entry
MediaEntryIfAny(list, i, att) ==
    IF att = "none" THEN list
    ELSE Append(list, [segment_index |-> i, path |-> "segment",
                       type |-> IF att = "video" THEN "video" ELSE "image"])

\* collect_media: what one round of its loop appends to media_list for
\* segment i; att is the attachment wait_for_media downloaded, "none" when
\* it returned (None, None) and the placeholder is created
MediaEntry(list, i, att) ==
    Append(list,
           IF att = "none"
           THEN [segment_index |-> i, path |-> "placeholder", type |-> "image"]
           ELSE [segment_index |-> i, path |-> "segment",
                 type |-> IF att = "video" THEN "video" ELSE "image"])

\* the waits of the production: the loop ends on its timeout, run goes on
\* with the fallback (placeholder, no music, no logo, automatic thumbnail)
ProducerTimeout ==
    /\ pc \in ProdOps /\ loc = "head" /\ clock # "start"
    /\ result' = [req |-> Current, kind |-> "timeout"]
    /\ Proceed
    /\ hist' = IF pc = "media"
               THEN [hist EXCEPT !.media = MediaEntry(@, seg, "none")]
               ELSE hist
    /\ UNCHANGED <<wait, hook, tts, segmenter, youtube>>
    /\ UNCHANGED <<server, next_id, collector, telegram, cancel_flag,
                   roteiro_partes, script, script_by>>

\* a wrong cursor rule kept for comparison with GetUpdatesOffset: an empty
\* batch resets the cursor
GetUpdatesOffsetReset(offset, us) ==
    IF Len(us) > 0 THEN us[Len(us)].update_id + 1 ELSE 0

\* TelegramInterface.get_updates: the cursor goes past the whole batch
GetUpdatesOffset(offset, us) ==
    IF Len(us) > 0 THEN us[Len(us)].update_id + 1 ELSE offset

\* TelegramInterface.wait_for_media: the loop over one batch
MediaStop(u) ==
    /\ u.m.msg
    /\ \/ IsCancelText(u.m)
       \/ u.m.att \in Wanted("media") /\ u.m.dl

\* a wrong loop kept for comparison with WaitForMediaScan: a skip keyword
\* ends the media request as it ends the optional ones
WaitForMediaScanSkipping(us, wr) ==
    LET k == First(us, LAMBDA u : MediaStop(u) \/ (u.m.msg /\ IsSkipText(u.m)))
    IN  [kind |-> IF k = 0 THEN "none"
                  ELSE IF IsSkipText(us[k].m) THEN "skipped"
                  ELSE IF IsCancelText(us[k].m)
                       THEN (IF wr THEN "cancelled" ELSE "write_error")
                       ELSE "received",
         file |-> IF k = 0 THEN 0 ELSE us[k].update_id,
         seen |-> Looked(us, k)]

WaitForMediaScan(us, wr) ==
    LET k == First(us, MediaStop)
    IN  [kind |-> IF k = 0 THEN "none"
                  ELSE IF IsCancelText(us[k].m)
                       THEN (IF wr THEN "cancelled" ELSE "write_error")
                       ELSE "received",
         file |-> IF k = 0 THEN 0 ELSE us[k].update_id,
         seen |-> Looked(us, k)]

\* request_background_music, request_channel_logo, request_thumbnail:
\* the loop over one batch
RequestStop(op, u) ==
    /\ u.m.msg
    /\ \/ IsSkipText(u.m)
       \/ IsCancelText(u.m)
       \/ u.m.att \in Wanted(op) /\ u.m.dl

RequestScan(op, us, wr) ==
    LET k == First(us, LAMBDA u : RequestStop(op, u))
    IN  [kind |-> IF k = 0 THEN "none"
                  ELSE IF IsSkipText(us[k].m) THEN "skipped"
                  ELSE IF IsCancelText(us[k].m)
                       THEN (IF wr THEN "cancelled" ELSE "write_error")
                       ELSE "received",
         file |-> IF k = 0 THEN 0 ELSE us[k].update_id,
         seen |-> Looked(us, k)]

\* the waits of the production: one long poll and the loop over its updates
ProducerPollOn(resp, wr) ==
    /\ pc \in ProdOps /\ loc = "poll"
    /\  LET us == IF resp = "ok" THEN GetUpdates(telegram.update_offset) ELSE <<>>
            r == IF pc = "media" THEN WaitForMediaScan(us, wr)
                 ELSE RequestScan(pc, us, wr)
            h == IF hist.call = Current THEN hist
                 ELSE [hist EXCEPT !.call = Current, !.skip = FALSE, !.files = 0]
        IN  /\ server' = IF resp = "ok" THEN Mark(<<Current[1], Current[2], "wait">>, us, r.seen)
                          ELSE server
            /\ telegram' = [update_offset |-> GetUpdatesOffset(telegram.update_offset, us),
                            cancelled |-> telegram.cancelled
                                          \/ r.kind \in {"cancelled", "write_error"}]
            /\ cancel_flag' = IF r.kind = "cancelled" THEN "cancelled" ELSE cancel_flag
            /\ hist' = [h EXCEPT
                   !.write_failed = @ \/ r.kind = "write_error",
                   !.skip = @ \/ (pc \in Skippable /\ SawSkip(r.seen)),
                   !.files = IF r.kind = "received" THEN @ + 1 ELSE @,
                   !.media = IF pc = "media" /\ r.kind = "received"
                             THEN MediaEntry(@, seg, r.seen[Len(r.seen)].m.att)
                             ELSE @]
            /\ CASE r.kind = "received" ->
                        /\ result' = [req |-> Current, kind |-> "received"]
                        /\ Proceed
                 [] r.kind = "skipped" ->
                        /\ result' = [req |-> Current, kind |-> "skipped"]
                        /\ Proceed
                 [] r.kind = "cancelled" ->
                        /\ result' = [req |-> Current, kind |-> "cancelled"]
                        /\ Exit(1)
                        /\ UNCHANGED seg
                 [] r.kind = "write_error" ->
                        /\ result' = [req |-> Current, kind |-> "failed"]
                        /\ Exit(1)
                        /\ UNCHANGED seg
                 [] r.kind = "none" ->
                        /\ result' = result
                        /\ Again(IF resp # "ok" \/ Len(us) = 0 THEN "late" ELSE "early")
                        /\ UNCHANGED seg
    /\ UNCHANGED <<wait, hook, tts, segmenter, youtube>>
    /\ UNCHANGED <<next_id, collector, roteiro_partes, script, script_by>>

ProducerPoll == \E resp \in Responses, wr \in BOOLEAN : ProducerPollOn(resp, wr)

\* VideoProducer.create_video, between the logo and the thumbnail request
Render ==
    /\ pc = "render"
    /\ \E ok \in BOOLEAN :
        IF ok THEN pc' = "thumbnail" /\ UNCHANGED <<loc, clock, exit_code>>
        ELSE Exit(1)
    /\ UNCHANGED <<wait, hook, tts, segmenter, youtube>>
    /\ UNCHANGED <<server, next_id, collector, telegram, cancel_flag, seg,
                   roteiro_partes, result, script, script_by, hist>>

\* VideoProducer.upload_to_youtube, then run_production and main return
Upload ==
    /\ pc = "upload"
    /\ \E ok \in BOOLEAN : Exit(IF ok THEN 0 ELSE 1)
    /\ UNCHANGED <<wait, hook, tts, segmenter, youtube>>
    /\ UNCHANGED <<server, next_id, collector, telegram, cancel_flag, seg,
                   roteiro_partes, result, script, script_by, hist>>

(***************************************************************************)
(* One wait loop against the wall clock.  Time is counted in whole seconds *)
(* since start_time; wait.now is what time.time() - start_time would read. *)
(***************************************************************************)
TimedOps ==
    {"wait_for_message", "collect_script_multipart", "wait_for_media",
     "request_background_music", "request_channel_logo", "request_thumbnail"}

\* the loops of TelegramCollector, which handle a failed request themselves
CollectorOps == {"wait_for_message", "collect_script_multipart"}

\* the loops that keep last_cancel_check
CheckClockOps == {"wait_for_message", "wait_for_media"}

\* the timeout each loop is called with
Timeout(op) ==
    CASE op = "wait_for_message" -> 600
      [] op = "collect_script_multipart" -> 900
      [] op = "wait_for_media" -> 1200
      [] op = "request_background_music" -> 600
      [] op = "request_channel_logo" -> 600
      [] op = "request_thumbnail" -> 1200

\* the divisor of the reminder bucket; collect_script_multipart sends none
ReminderInterval(op) ==
    CASE op = "wait_for_message" -> 120
      [] op = "collect_script_multipart" -> 0
      [] op = "wait_for_media" -> 180
      [] op = "request_background_music" -> 120
      [] op = "request_channel_logo" -> 120
      [] op = "request_thumbnail" -> 180

check_cancel_interval == 5

\* the 'timeout' parameter of the getUpdates request
LongPoll(op, elapsed) ==
    IF op = "collect_script_multipart"
    THEN (IF Timeout(op) - elapsed < 30 THEN Timeout(op) - elapsed ELSE 30)
    ELSE 10

\* time.sleep after a round
SleepAfter(op, what) ==
    IF op \in CollectorOps
    THEN (CASE what = "not_ok" -> 3
            [] what = "error" -> 5
            [] OTHER -> 0)
    ELSE 2

\* seconds that may pass between two reads of the clock, or during one
\* short request (sendMessage, the getUpdates of check_for_cancel)
Ticks == 0..MaxTick

\* seconds after which a long poll with timeout pt may return
PollDurations(pt) == {d \in Ticks : d <= pt} \cup {pt}

\* a wrong bucket test kept for comparison with ReminderDue: >= for >
ReminderDueAgain(elapsed, last_reminder, interval) ==
    elapsed \div interval >= last_reminder

\* int(elapsed) // interval > last_reminder, the test that guards a reminder
ReminderDue(elapsed, last_reminder, interval) ==
    elapsed \div interval > last_reminder

WaitInit ==
    [op |-> "none", pc |-> "idle", now |-> 0, elapsed |-> 0,
     last_reminder |-> 0, last_cancel_check |-> 0,
     poll |-> 0,                \* timeout of the long poll in flight
     outcome |-> "none",        \* "received", "timeout", "cancelled"
     sent |-> 0,                \* history: reminders sent
     buckets |-> {},            \* history: the buckets they were sent for
     answer_at |-> 0,           \* history: when the answer returned arrived
     quiet |-> TRUE]            \* history: no request has failed so far

\* a wrong loop test kept for comparison with WaitTest: when the time is up
\* the wait starts over
WaitTestRestart ==
    /\ wait.pc = "test"
    /\ IF wait.now < Timeout(wait.op)
       THEN \E d \in Ticks :
                wait' = [wait EXCEPT !.now = @ + d, !.elapsed = wait.now + d,
                            !.pc = IF wait.op = "collect_script_multipart"
                                   THEN "poll" ELSE "check"]
       ELSE wait' = [WaitInit EXCEPT !.op = wait.op, !.pc = "test"]
    /\ UNCHANGED <<hook, tts, segmenter, youtube>>
    /\ UNCHANGED <<server, next_id, collector, telegram, cancel_flag, pc, seg,
                   loc, clock, roteiro_partes, result, script, script_by,
                   hist, exit_code>>

\* the while test, and the clock read that follows it
WaitTest ==
    /\ wait.pc = "test"
    /\ IF wait.now < Timeout(wait.op)
       THEN \E d \in Ticks :
                wait' = [wait EXCEPT !.now = @ + d, !.elapsed = wait.now + d,
                            !.pc = IF wait.op = "collect_script_multipart"
                                   THEN "poll" ELSE "check"]
       ELSE wait' = [wait EXCEPT !.pc = "done", !.outcome = "timeout"]
    /\ UNCHANGED <<hook, tts, segmenter, youtube>>
    /\ UNCHANGED <<server, next_id, collector, telegram, cancel_flag, pc, seg,
                   loc, clock, roteiro_partes, result, script, script_by,
                   hist, exit_code>>

\* the periodic check_for_cancel of the loop, when it is due
WaitCheck ==
    /\ wait.pc = "check"
    /\ LET since == IF wait.op \in CheckClockOps THEN wait.last_cancel_check
                    ELSE wait.last_reminder
       IN  IF wait.elapsed - since >= check_cancel_interval
           THEN \E d \in Ticks, hit \in BOOLEAN :
                    IF hit
                    THEN wait' = [wait EXCEPT !.now = @ + d, !.pc = "done",
                                     !.outcome = "cancelled"]
                    ELSE wait' = [wait EXCEPT !.now = @ + d, !.pc = "remind",
                                     !.last_cancel_check =
                                         IF wait.op \in CheckClockOps
                                         THEN wait.elapsed ELSE @]
           ELSE wait' = [wait EXCEPT !.pc = "remind"]
    /\ UNCHANGED <<hook, tts, segmenter, youtube>>
    /\ UNCHANGED <<server, next_id, collector, telegram, cancel_flag, pc, seg,
                   loc, clock, roteiro_partes, result, script, script_by,
                   hist, exit_code>>

\* the reminder of the loop, when its bucket test passes
WaitRemind ==
    /\ wait.pc = "remind"
    /\ LET b == wait.elapsed \div ReminderInterval(wait.op)
       IN  IF ReminderDue(wait.elapsed, wait.last_reminder,
                          ReminderInterval(wait.op))
           THEN \E d \in Ticks :
                    wait' = [wait EXCEPT !.now = @ + d, !.pc = "poll",
                                !.last_reminder = b,
                                !.sent = @ + 1,
                                !.buckets = @ \cup {b}]
           ELSE wait' = [wait EXCEPT !.pc = "poll"]
    /\ UNCHANGED <<hook, tts, segmenter, youtube>>
    /\ UNCHANGED <<server, next_id, collector, telegram, cancel_flag, pc, seg,
                   loc, clock, roteiro_partes, result, script, script_by,
                   hist, exit_code>>

\* the getUpdates long poll is sent
WaitPoll ==
    /\ wait.pc = "poll"
    /\ IF wait.op = "collect_script_multipart" /\ Timeout(wait.op) - wait.elapsed <= 0
       THEN wait' = [wait EXCEPT !.pc = "done", !.outcome = "timeout"]
       ELSE wait' = [wait EXCEPT !.pc = "polling",
                        !.poll = LongPoll(wait.op, wait.elapsed)]
    /\ UNCHANGED <<hook, tts, segmenter, youtube>>
    /\ UNCHANGED <<server, next_id, collector, telegram, cancel_flag, pc, seg,
                   loc, clock, roteiro_partes, result, script, script_by,
                   hist, exit_code>>

\* the long poll returns, and the loop handles what it brought
WaitPollReturns ==
    /\ wait.pc = "polling"
    /\ \E what \in {"empty", "answer", "cancel", "other", "not_ok", "error"} :
       \E d \in (IF what = "empty" THEN {wait.poll} ELSE PollDurations(wait.poll)) :
            CASE what = "answer" ->
                    wait' = [wait EXCEPT !.now = @ + d, !.pc = "done", !.poll = 0,
                                !.outcome = "received", !.answer_at = wait.now + d]
              [] what = "cancel" ->
                    wait' = [wait EXCEPT !.now = @ + d, !.pc = "done", !.poll = 0,
                                !.outcome = "cancelled"]
              [] OTHER ->
                    wait' = [wait EXCEPT
                                !.now = @ + d + SleepAfter(wait.op, what),
                                !.pc = "test", !.poll = 0,
                                !.quiet = @ /\ what \notin {"not_ok", "error"}]
    /\ UNCHANGED <<hook, tts, segmenter, youtube>>
    /\ UNCHANGED <<server, next_id, collector, telegram, cancel_flag, pc, seg,
                   loc, clock, roteiro_partes, result, script, script_by,
                   hist, exit_code>>

(***************************************************************************)
(* One run of main: the collector has just been constructed.  A flag file  *)
(* of an earlier run may still exist.                                      *)
(***************************************************************************)
HistInit ==
    [script_in |-> <<>>,             \* texts delivered to the script request
     call |-> Req("none", 0),        \* the production request that polled last
     skip |-> FALSE,                 \* that request looked at a skip keyword
     files |-> 0,                    \* files that request downloaded
     dropped |-> FALSE,              \* check_for_cancel consumed an answer
     check |-> [who |-> "none", marker |-> FALSE, polled |-> FALSE,
                moved |-> FALSE, ret |-> FALSE], \* the last check_for_cancel call
     write_failed |-> FALSE,         \* a write of the flag file failed
     record |-> "none",              \* status of the production file written
     media |-> <<>>]                 \* media_list of collect_media

Init ==
    /\ server = <<>>
    /\ next_id = 1
    /\ collector = [update_offset |-> 0, cancelled |-> FALSE]
    /\ telegram = [update_offset |-> 0, cancelled |-> FALSE]
    /\ cancel_flag \in {"absent", "cancelled"}
    /\ pc = "start"
    /\ seg = 1
    /\ loc = "head"
    /\ clock = "start"
    /\ roteiro_partes = <<>>
    /\ result = [req |-> Req("none", 0), kind |-> "none"]
    /\ script = <<>>
    /\ script_by = "none"
    /\ hist = HistInit
    /\ exit_code = -1
    /\ wait = WaitInit
    /\ hook = HookInit
    /\ tts = TtsInit
    /\ segmenter = SegmenterInit
    /\ youtube = YoutubeInit

Next ==
    \/ \E m \in Sendable : OperatorSend(m)
    \/ CollectStart
    \/ CollectorCancelCheck
    \/ CollectorNoCheck
    \/ MessageTimeout
    \/ MessagePoll
    \/ ScriptPoll
    \/ ScriptTimeout
    \/ ProductionStart
    \/ ProducerCancelCheck
    \/ ProducerNoCheck
    \/ ProducerTimeout
    \/ ProducerPoll
    \/ Render
    \/ Upload

Spec == Init /\ [][Next]_vars

(***************************************************************************)
(* collect_script_multipart alone: the state in which collect_video_info   *)
(* calls it.  The answers to the three requests before it are confirmed;   *)
(* update ids are counted from here on.                                    *)
(***************************************************************************)
InitScript ==
    /\ server = <<>>
    /\ next_id = 1
    /\ collector = [update_offset |-> 1, cancelled |-> FALSE]
    /\ telegram = [update_offset |-> 0, cancelled |-> FALSE]
    /\ cancel_flag = "absent"
    /\ pc = "script"
    /\ seg = 1
    /\ loc = "head"
    /\ clock = "start"
    /\ roteiro_partes = <<>>
    /\ result = [req |-> Req("tags", 0), kind |-> "received"]
    /\ script = <<>>
    /\ script_by = "none"
    /\ hist = HistInit
    /\ exit_code = -1
    /\ wait = WaitInit
    /\ hook = HookInit
    /\ tts = TtsInit
    /\ segmenter = SegmenterInit
    /\ youtube = YoutubeInit

NextScript ==
    \/ \E m \in Sendable : OperatorSend(m)
    \/ ScriptPoll
    \/ ScriptTimeout

SpecScript == InitScript /\ [][NextScript]_vars

(***************************************************************************)
(* run_production alone: the state in which main calls it after a script   *)
(* of one part that ended on its timeout (every update is confirmed).      *)
(***************************************************************************)
InitProduction ==
    /\ server = <<>>
    /\ next_id = 1
    /\ collector = [update_offset |-> 1, cancelled |-> FALSE]
    /\ telegram = [update_offset |-> 0, cancelled |-> FALSE]
    /\ cancel_flag = "absent"
    /\ pc = "audio"
    /\ seg = 1
    /\ loc = "head"
    /\ clock = "late"
    /\ roteiro_partes = <<"Hello">>
    /\ result = [req |-> Req("script", 0), kind |-> "received"]
    /\ script = <<"Hello">>
    /\ script_by = "timeout"
    /\ hist = [HistInit EXCEPT !.script_in = <<"Hello">>, !.record = "collected"]
    /\ exit_code = -1
    /\ wait = WaitInit
    /\ hook = HookInit
    /\ tts = TtsInit
    /\ segmenter = SegmenterInit
    /\ youtube = YoutubeInit

NextProduction ==
    \/ \E m \in Sendable : OperatorSend(m)
    \/ ProductionStart
    \/ ProducerCancelCheck
    \/ ProducerNoCheck
    \/ ProducerTimeout
    \/ ProducerPoll
    \/ Render
    \/ Upload

SpecProduction == InitProduction /\ [][NextProduction]_vars

(***************************************************************************)
(* check_for_cancel called on its own, any number of times, on a freshly   *)
(* constructed TelegramCollector and TelegramInterface.  The flag file may *)
(* exist from the start, or be written by one of the calls.                *)
(***************************************************************************)
\* one call of TelegramCollector.check_for_cancel
CollectorCheckCall ==
    /\ pc = "api"
    /\ \E resp \in Responses, wr \in BOOLEAN :
        LET c == CollectorCheckForCancel(<<"collector", 0, "check">>, resp, wr)
        IN  /\ server' = c.server
            /\ collector' = c.object
            /\ cancel_flag' = c.cancel_flag
            /\ hist' = [hist EXCEPT
                   !.write_failed = @ \/ c.write_failed,
                   !.check = [who |-> "collector",
                              marker |-> cancel_flag # "absent",
                              polled |-> c.polled,
                              moved |-> c.object.update_offset # collector.update_offset,
                              ret |-> c.ret]]
    /\ UNCHANGED <<wait, hook, tts, segmenter, youtube>>
    /\ UNCHANGED <<next_id, telegram, pc, seg, loc, clock, roteiro_partes,
                   result, script, script_by, exit_code>>

\* one call of TelegramInterface.check_for_cancel
InterfaceCheckCall ==
    /\ pc = "api"
    /\ \E resp \in Responses, wr \in BOOLEAN :
        LET c == InterfaceCheckForCancel(<<"interface", 0, "check">>, resp, wr)
        IN  /\ server' = c.server
            /\ telegram' = c.object
            /\ cancel_flag' = c.cancel_flag
            /\ hist' = [hist EXCEPT
                   !.write_failed = @ \/ c.write_failed,
                   !.check = [who |-> "interface",
                              marker |-> cancel_flag # "absent",
                              polled |-> c.polled,
                              moved |-> c.object.update_offset # telegram.update_offset,
                              ret |-> c.ret]]
    /\ UNCHANGED <<wait, hook, tts, segmenter, youtube>>
    /\ UNCHANGED <<next_id, collector, pc, seg, loc, clock, roteiro_partes,
                   result, script, script_by, exit_code>>

InitCheck ==
    /\ server = <<>>
    /\ next_id = 1
    /\ collector = [update_offset |-> 0, cancelled |-> FALSE]
    /\ telegram = [update_offset |-> 0, cancelled |-> FALSE]
    /\ cancel_flag \in {"absent", "cancelled"}
    /\ pc = "api"
    /\ seg = 1
    /\ loc = "head"
    /\ clock = "start"
    /\ roteiro_partes = <<>>
    /\ result = [req |-> Req("none", 0), kind |-> "none"]
    /\ script = <<>>
    /\ script_by = "none"
    /\ hist = HistInit
    /\ exit_code = -1
    /\ wait = WaitInit
    /\ hook = HookInit
    /\ tts = TtsInit
    /\ segmenter = SegmenterInit
    /\ youtube = YoutubeInit

NextCheck ==
    \/ \E m \in Sendable : OperatorSend(m)
    \/ CollectorCheckCall
    \/ InterfaceCheckCall

SpecCheck == InitCheck /\ [][NextCheck]_vars

(***************************************************************************)
(* One wait loop against the wall clock, from the moment start_time is     *)
(* taken.                                                                  *)
(***************************************************************************)
InitTimed ==
    /\ server = <<>>
    /\ next_id = 1
    /\ collector = [update_offset |-> 0, cancelled |-> FALSE]
    /\ telegram = [update_offset |-> 0, cancelled |-> FALSE]
    /\ cancel_flag = "absent"
    /\ pc = "timed"
    /\ seg = 1
    /\ loc = "head"
    /\ clock = "start"
    /\ roteiro_partes = <<>>
    /\ result = [req |-> Req("none", 0), kind |-> "none"]
    /\ script = <<>>
    /\ script_by = "none"
    /\ hist = HistInit
    /\ exit_code = -1
    /\ \E op \in TimedOps : wait = [WaitInit EXCEPT !.op = op, !.pc = "test"]
    /\ hook = HookInit
    /\ tts = TtsInit
    /\ segmenter = SegmenterInit
    /\ youtube = YoutubeInit

NextTimed ==
    \/ WaitTest
    \/ WaitCheck
    \/ WaitRemind
    \/ WaitPoll
    \/ WaitPollReturns

SpecTimed == InitTimed /\ [][NextTimed]_vars

(***************************************************************************)
(* Properties of one run (specification Spec)                              *)
(***************************************************************************)

\* C1: no update is looked at by two different wait operations, the
\* hand-off from the collector's cursor to the TelegramInterface cursor
\* (which starts at 0) included.
C1_NoUpdateProcessedTwice ==
    \A i \in 1..Len(server) : Cardinality(server[i].by) <= 1

C3_CancelLeavesMarker ==
    (result.kind = "cancelled" /\ ~hist.write_failed) => cancel_flag = "cancelled"

\* C4: the periodic check_for_cancel of wait_for_message never consumes a
\* non-empty, non-cancel text of the configured chat.
C4_CheckNeverDropsAnswer == ~hist.dropped

\* the parts in arrival order, with one newline between neighbours
JoinedByNewlines(parts) ==
    [i \in 1..(2 * Len(parts) - 1) |->
        IF i % 2 = 1 THEN parts[(i + 1) \div 2] ELSE "\n"]

\* C8: when a terminator keyword ends collect_script_multipart, the script
\* returned is the parts delivered to it, in arrival order, joined by
\* single newlines, however the parts were split across the poll batches.
C8_ScriptIsPartsJoined ==
    script_by = "terminator" => script = JoinedByNewlines(hist.script_in)

\* C8 witness: Hello and World, then a terminator.
C8_HelloWorld ==
    script_by = "terminator" /\ script = <<"Hello", "\n", "World">>

\* C9: a skippable request that looked at a skip keyword sent while it was
\* waiting (in its loop or in its check_for_cancel) returns SKIPPED and has
\* downloaded no file, unless a cancellation ended it first.
C9_SkipDownloadsNothing ==
    (/\ hist.skip /\ result.req = hist.call
     /\ result.kind \notin {"cancelled", "failed"}) =>
        (result.kind = "skipped" /\ hist.files = 0)

(***************************************************************************)
(* Properties of check_for_cancel called on its own (SpecCheck)            *)
(***************************************************************************)

\* C10: a check_for_cancel call made while the flag file exists, on a
\* TelegramInterface or on a TelegramCollector, returns true, sends no
\* getUpdates request and leaves the cursor where it was.
C10_CheckIdempotentOnceMarked ==
    hist.check.marker =>
        (hist.check.ret /\ ~hist.check.polled /\ ~hist.check.moved)

(***************************************************************************)
(* Properties of one wait loop against the clock (SpecTimed)               *)
(***************************************************************************)

\* C5: wait_for_message, wait_for_media and collect_script_multipart never
\* send a long poll whose timeout is more than what is left of their own
\* timeout, and never return an answer that arrived after their timeout.
C5_PollWithinBudget ==
    /\ (/\ wait.pc = "polling"
        /\ wait.op \in {"wait_for_message", "wait_for_media",
                        "collect_script_multipart"})
          => wait.poll <= Timeout(wait.op) - wait.elapsed
    /\ wait.outcome = "received" => wait.answer_at <= Timeout(wait.op)

\* C6: a wait_for_message(timeout=600) that ends on its timeout, no request
\* having failed, has sent exactly 4 reminders: one for each of the buckets
\* that start at 120, 240, 360 and 480 seconds.
C6_ExactlyFourReminders ==
    (wait.op = "wait_for_message" /\ wait.outcome = "timeout" /\ wait.quiet)
        => (wait.sent = 4 /\ wait.buckets = {1, 2, 3, 4})

\* C7: in every loop that sends reminders, a reminder is sent only for a
\* bucket index no reminder was sent for before, whatever the durations of
\* the rounds, and last_reminder never decreases.
C7_OneReminderPerBucket ==
    [][/\ wait'.last_reminder >= wait.last_reminder
       /\ wait'.sent > wait.sent =>
            /\ wait'.sent = wait.sent + 1
            /\ (wait.elapsed \div ReminderInterval(wait.op)) \notin wait.buckets
            /\ wait'.buckets =
                 wait.buckets \cup {wait.elapsed \div ReminderInterval(wait.op)}]_vars

\* C7 witness: wait_for_media has sent its third reminder (180 s buckets).
C7_ThirdMediaReminder ==
    wait.op = "wait_for_media" /\ wait.sent = 3 /\ wait.buckets = {1, 2, 3}

(***************************************************************************)
(* Properties of the production waits (SpecProduction)                     *)
(***************************************************************************)

\* a batch without the updates of other chats
OwnChat(us) == SelectSeq(us, LAMBDA u : ~u.m.msg \/ u.m.chat = ChatId)

\* C11: an update of another chat has no effect on a wait: whenever a poll
\* of wait_for_message or of a production wait ends the request as received,
\* skipped or cancelled, the same batch without the updates of other chats
\* ends it the same way.
C11_OtherChatHasNoEffect ==
    [][(/\ loc = "poll" /\ pc \in WaitOps \cup ProdOps
        /\ result' # result
        /\ result'.kind \in {"received", "skipped", "cancelled"})
       => \E wr \in BOOLEAN :
            result'.kind =
              (IF pc \in WaitOps
               THEN WaitForMessageScan(collector.update_offset,
                        OwnChat(GetUpdates(collector.update_offset)), wr)
               ELSE IF pc = "media"
               THEN WaitForMediaScan(OwnChat(GetUpdates(telegram.update_offset)), wr)
               ELSE RequestScan(pc, OwnChat(GetUpdates(telegram.update_offset)),
                                wr)).kind]_vars

(***************************************************************************)
(* C12: the notices a resolved request causes                              *)
(***************************************************************************)
\* the send_message calls the code makes about the outcome r of a request,
\* from the loop that resolves it up to the return of main; by tells how a
\* script was completed
Notices(r, by) ==
    LET op == r.req[1]
    IN  CASE op \in WaitOps -> 1
          [] op = "script" ->
                (CASE r.kind = "cancelled" -> 0
                   [] r.kind = "timeout" -> 1
                   [] r.kind = "received" -> IF by = "file" THEN 2 ELSE 1)
          [] op \in ProdOps ->
                (CASE r.kind = "cancelled" -> 3
                   [] r.kind = "failed" -> 1
                   [] r.kind = "timeout" -> IF op = "media" THEN 2 ELSE 1
                   [] r.kind \in {"received", "skipped"} -> 1)

\* C12: every request that reached a terminal state caused exactly one
\* notice, neither none nor several
C12_ExactlyOneNotice ==
    result.kind # "none" => Notices(result, script_by) = 1

(***************************************************************************)
(* C13: a cancel keyword whose flag file cannot be written                 *)
(***************************************************************************)
\* C13: when the write of the flag file failed while a cancel keyword was
\* processed, the run has still halted as cancelled: the wait that saw the
\* keyword ended cancelled and no request is waiting
C13_FailedWriteStillCancels ==
    hist.write_failed => (pc = "exit" /\ result.kind = "cancelled")

(***************************************************************************)
(* C14: a getUpdates request that fails                                    *)
(***************************************************************************)
\* one round of a wait, or one check_for_cancel call that polls, whose
\* getUpdates request raised or came back not ok
FailedRound ==
    \E resp \in Responses \ {"ok"}, wr \in BOOLEAN :
        \/ MessagePollOn(resp, wr)
        \/ ScriptPollOn(resp)
        \/ ProducerPollOn(resp, wr)
        \/ CollectorCancelCheckOn(resp, wr)
        \/ cancel_flag = "absent" /\ ProducerCancelCheckOn(resp, wr)

\* C14: a transport error in a getUpdates poll never ends the run: both
\* cursors, the script parts collected so far, the cancellation flags and the
\* flag file are unchanged, no update is consumed, nothing is resolved, and
\* the same request goes on waiting
C14_FailedRoundChangesNothing ==
    [][FailedRound =>
          /\ UNCHANGED <<server, collector, telegram, cancel_flag,
                         roteiro_partes, script, script_by, result>>
          /\ pc' = pc /\ seg' = seg /\ exit_code' = exit_code
          /\ loc' \in {"head", "poll"}]_vars

\* a title round ended early although no update was ever consumed: the
\* request came back not ok while an answer was waiting at the server, and
\* the cursor and the answer are still there
C14_NotOkRoundSurvived ==
    /\ pc = "title" /\ loc = "head" /\ clock = "early"
    /\ Len(server) = next_id - 1 /\ Len(server) > 0
    /\ \A i \in 1..Len(server) : server[i].by = {}
    /\ collector.update_offset = 0
    /\ server[1].m.msg /\ server[1].m.chat = ChatId /\ server[1].m.text = "Hello"
    /\ result.kind = "none"

(***************************************************************************)
(* C15: a cancel keyword in a message that also carries a payload.         *)
(* collect_script_multipart alone, with an operator who may also send a    *)
(* cancel keyword together with a photo or a .txt document.                *)
(***************************************************************************)
WithPayload ==
    { Msg("me", "Cancelar", "doc_txt", TRUE),
      Msg("me", "Cancelar", "photo", TRUE) }

NextPayload ==
    \/ \E m \in Sendable \cup WithPayload : OperatorSend(m)
    \/ ScriptPoll
    \/ ScriptTimeout

SpecPayload == InitScript /\ [][NextPayload]_vars

\* the update at which the round that is about to run stops
StoppedAt ==
    IF pc = "script"
    THEN LET us == GetUpdates(collector.update_offset)
         IN  us[ScriptScan(us, 1, roteiro_partes).n]
    ELSE IF pc \in WaitOps
    THEN LET s == WaitForMessageScan(collector.update_offset,
                      GetUpdates(collector.update_offset), TRUE).seen
         IN  s[Len(s)]
    ELSE LET us == GetUpdates(telegram.update_offset)
             s == IF pc = "media" THEN WaitForMediaScan(us, TRUE).seen
                  ELSE RequestScan(pc, us, TRUE).seen
         IN  s[Len(s)]

\* C15: a message whose text is a cancel keyword is never taken as the
\* answer to a request, whatever else it carries: no round resolves its
\* request as received on such a message
C15_CancelTextNeverAnAnswer ==
    [][(/\ pc \in WaitOps \cup {"script"} \cup ProdOps
        /\ result' # result /\ result'.kind = "received"
        /\ server' # server)
       => ~IsCancelText(StoppedAt.m)]_vars

(***************************************************************************)
(* C16: the exit code of main                                              *)
(***************************************************************************)
\* C16: a run in which the operator cancelled ends with exit code 2; a run
\* that ended on the timeout of title, description, tags or script, or on a
\* failure, ends with exit code 1
C16_CancelExitsWithTwo ==
    pc = "exit" =>
        /\ result.kind = "cancelled" => exit_code = 2
        /\ (\/ result.kind = "failed"
            \/ result.kind = "timeout"
               /\ result.req[1] \in WaitOps \cup {"script"}) => exit_code = 1

(***************************************************************************)
(* C17: the life of the flag file.  Either main runs, or                   *)
(* TelegramCollector.check_for_cancel (the check that polls whether or not *)
(* the flag file exists) is called on its own; the flag file of an earlier *)
(* run may exist from the start.                                           *)
(***************************************************************************)
InitMarker ==
    /\ server = <<>>
    /\ next_id = 1
    /\ collector = [update_offset |-> 0, cancelled |-> FALSE]
    /\ telegram = [update_offset |-> 0, cancelled |-> FALSE]
    /\ cancel_flag \in {"absent", "cancelled"}
    /\ pc \in {"start", "api"}
    /\ seg = 1
    /\ loc = "head"
    /\ clock = "start"
    /\ roteiro_partes = <<>>
    /\ result = [req |-> Req("none", 0), kind |-> "none"]
    /\ script = <<>>
    /\ script_by = "none"
    /\ hist = HistInit
    /\ exit_code = -1
    /\ wait = WaitInit
    /\ hook = HookInit
    /\ tts = TtsInit
    /\ segmenter = SegmenterInit
    /\ youtube = YoutubeInit

NextMarker ==
    \/ Next
    \/ CollectorCheckCall

SpecMarker == InitMarker /\ [][NextMarker]_vars

\* C17: once the flag file is there it stays: the only step that removes it
\* is the start of collect_video_info, and no wait, poll, check, timeout or
\* production step removes it or replaces it by anything else
C17_OnlyCollectStartRemovesMarker ==
    [][(cancel_flag = "cancelled" /\ cancel_flag' # "cancelled")
       => (pc = "start" /\ pc' = "title")]_vars

\* a check_for_cancel call found the flag file, polled the server all the
\* same, and the flag file is still there
C17_MarkerSurvivedPoll ==
    /\ cancel_flag = "cancelled"
    /\ hist.check.marker /\ hist.check.polled
    /\ Len(server) > 0

(***************************************************************************)
(* C18: waits while the flag file exists.  run_production called while the *)
(* flag file of an earlier, cancelled run is still on disk (nothing but    *)
(* collect_video_info removes it).                                         *)
(***************************************************************************)
InitStale ==
    /\ server = <<>>
    /\ next_id = 1
    /\ collector = [update_offset |-> 1, cancelled |-> FALSE]
    /\ telegram = [update_offset |-> 0, cancelled |-> FALSE]
    /\ cancel_flag = "cancelled"
    /\ pc = "audio"
    /\ seg = 1
    /\ loc = "head"
    /\ clock = "late"
    /\ roteiro_partes = <<"Hello">>
    /\ result = [req |-> Req("script", 0), kind |-> "received"]
    /\ script = <<"Hello">>
    /\ script_by = "timeout"
    /\ hist = [HistInit EXCEPT !.script_in = <<"Hello">>, !.record = "collected"]
    /\ exit_code = -1
    /\ wait = WaitInit
    /\ hook = HookInit
    /\ tts = TtsInit
    /\ segmenter = SegmenterInit
    /\ youtube = YoutubeInit

SpecStale == InitStale /\ [][NextProduction]_vars

\* C18: while the flag file exists no wait accepts an answer: a request that
\* is resolved is resolved as cancelled, never as received or skipped
C18_MarkerStopsEveryWait ==
    [][(cancel_flag = "cancelled" /\ result' # result)
       => result'.kind \notin {"received", "skipped"}]_vars

(***************************************************************************)
(* C19: one request at a time, in a fixed order                            *)
(***************************************************************************)
\* the Field Requests in the order the code issues them
Order ==
    <<Req("title", 0), Req("description", 0), Req("tags", 0), Req("script", 0)>>
    \o [i \in 1..NumSegments |-> Req("media", i)]
    \o <<Req("music", 0), Req("logo", 0), Req("thumbnail", 0)>>

\* the position of a request in Order, 0 for what is not a request
Rank(r) ==
    IF \E i \in 1..Len(Order) : Order[i] = r
    THEN CHOOSE i \in 1..Len(Order) : Order[i] = r
    ELSE 0

C20_TimeoutIsNotTheEnd ==
    [][(result' # result /\ result'.kind = "timeout") => pc' # "exit"]_vars

(***************************************************************************)
(* C21: several attachments in one batch of a production wait              *)
(***************************************************************************)
\* run_production alone, with an operator who sends photos (some of which
\* cannot be downloaded) and plain texts
Photos ==
    { Msg("me", "", "photo", TRUE),
      Msg("me", "", "photo", FALSE),
      Msg("me", "Hello", "none", FALSE) }

NextBatch ==
    \/ \E m \in Photos : OperatorSend(m)
    \/ ProductionStart
    \/ ProducerCancelCheck
    \/ ProducerNoCheck
    \/ ProducerTimeout
    \/ ProducerPoll
    \/ Render
    \/ Upload

SpecBatch == InitProduction /\ [][NextBatch]_vars

\* C21: when a round of a production wait resolves its request as received,
\* one file has been taken for the request, the cursor is past every update
\* of the batch, and the next getUpdates returns none of them: what came
\* after the consumed attachment in the batch reaches no later request
C21_RestOfBatchDiscarded ==
    [][(/\ pc \in ProdOps /\ loc = "poll"
        /\ result' # result /\ result'.kind = "received")
       => LET us == GetUpdates(telegram.update_offset)
          IN  /\ hist'.files = 1
              /\ \A i \in 1..Len(us) : us[i].update_id < telegram'.update_offset
              /\ Ids(GetUpdates(telegram.update_offset)') \cap Ids(us) = {}]_vars

\* the media request took the first of two photos of one batch; the second
\* was never looked at, lies behind the cursor, and the music request is
\* waiting
C21_SecondPhotoLeftBehind ==
    /\ pc = "music"
    /\ result = [req |-> Req("media", NumSegments), kind |-> "received"]
    /\ Len(server) = 2
    /\ server[1].m.att = "photo" /\ server[2].m.att = "photo"
    /\ server[1].by = {<<"media", NumSegments, "wait">>}
    /\ server[2].by = {}
    /\ server[2].update_id < telegram.update_offset

(***************************************************************************)
(* C22: every wait ends.  The loop keeps running, and wall-clock time      *)
(* advances: of the steps that take time, one that takes more than zero    *)
(* seconds happens again and again.                                        *)
(***************************************************************************)
TimePasses == NextTimed /\ wait'.now > wait.now

SpecTimedFair ==
    /\ InitTimed /\ [][NextTimed]_vars
    /\ WF_vars(NextTimed)
    /\ SF_vars(TimePasses)

\* C22: every wait loop eventually returns or raises WorkflowCancelled,
\* whatever messages arrive and whichever requests fail
C22_EveryWaitTerminates == <>(wait.pc = "done")

\* a wait went through failed requests and ended on its timeout
C22_TimedOutAfterFailures ==
    /\ wait.pc = "done" /\ wait.outcome = "timeout" /\ ~wait.quiet
    /\ wait.op = "collect_script_multipart"

(***************************************************************************)
(* C23: messages that were pending before the objects were created.  One   *)
(* run of main from the construction of the TelegramCollector on, with up  *)
(* to two updates (tagged at = "old") already waiting at the server.       *)
(***************************************************************************)
OldMessages ==
    { Msg("me", "Hello", "none", FALSE),
      Msg("me", "Cancelar", "none", FALSE),
      Msg("me", "", "photo", TRUE) }

Old(id, m) == [update_id |-> id, m |-> m, by |-> {}, at |-> "old"]

OldQueues ==
    {<<>>} \cup {<<Old(1, m)>> : m \in OldMessages}
           \cup {<<Old(1, m), Old(2, n)>> : m \in OldMessages, n \in OldMessages}

\* TelegramCollector.__init__: _get_last_update_id asks for the last update
\* (offset -1, which makes the server forget the ones before it) and puts
\* the cursor after it; 0 when the request fails or nothing is pending
CollectorInit ==
    /\ pc = "new"
    /\ \E resp \in Responses :
        LET got == resp = "ok" /\ Len(server) > 0
        IN  /\ collector' = [update_offset |->
                                IF got THEN server[Len(server)].update_id + 1 ELSE 0,
                             cancelled |-> FALSE]
            /\ server' = IF got THEN <<server[Len(server)]>> ELSE server
    /\ pc' = "start"
    /\ UNCHANGED <<wait, hook, tts, segmenter, youtube>>
    /\ UNCHANGED <<next_id, telegram, cancel_flag, seg, loc, clock,
                   roteiro_partes, result, script, script_by, exit_code, hist>>

InitFresh ==
    /\ server \in OldQueues
    /\ next_id = Len(server) + 1
    /\ collector = [update_offset |-> 0, cancelled |-> FALSE]
    /\ telegram = [update_offset |-> 0, cancelled |-> FALSE]
    /\ cancel_flag = "absent"
    /\ pc = "new"
    /\ seg = 1
    /\ loc = "head"
    /\ clock = "start"
    /\ roteiro_partes = <<>>
    /\ result = [req |-> Req("none", 0), kind |-> "none"]
    /\ script = <<>>
    /\ script_by = "none"
    /\ hist = HistInit
    /\ exit_code = -1
    /\ wait = WaitInit
    /\ hook = HookInit
    /\ tts = TtsInit
    /\ segmenter = SegmenterInit
    /\ youtube = YoutubeInit

NextFresh ==
    \/ CollectorInit
    \/ Next

SpecFresh == InitFresh /\ [][NextFresh]_vars

\* C23: no wait resolves its request (as received, skipped or cancelled) on
\* an update that was already pending when the collector was created
C23_OldMessagesNeverProcessed ==
    [][(/\ \/ pc = "script"
           \/ pc \in WaitOps \cup ProdOps /\ loc = "poll"
        /\ result' # result
        /\ result'.kind \in {"received", "skipped", "cancelled"}
        /\ server' # server)
       => StoppedAt.at # "old"]_vars

(***************************************************************************)
(* C24: where a skip keyword counts                                        *)
(***************************************************************************)
\* C24: only music, logo and thumbnail are ever resolved as skipped; title,
\* description, tags, script and segment media never are
C24_SkipOnlyWhereSkippable ==
    result.kind = "skipped" => result.req[1] \in Skippable

\* the media request has looked at a skip keyword and is still waiting
C24_MediaIgnoredSkip ==
    /\ pc = "media" /\ loc = "head"
    /\ result.req[1] # "media"
    /\ \E i \in 1..Len(server) :
          /\ IsSkipText(server[i].m)
          /\ <<"media", seg, "wait">> \in server[i].by

(***************************************************************************)
(* C25: the terminator keywords.  collect_script_multipart alone, with an  *)
(* operator who also writes the terminators in other letter cases.         *)
(***************************************************************************)
Terminators ==
    { Msg("me", "fim", "none", FALSE),
      Msg("me", "DONE", "none", FALSE) }

NextWords ==
    \/ \E m \in Sendable \cup Terminators : OperatorSend(m)
    \/ ScriptPoll
    \/ ScriptTimeout

SpecWords == InitScript /\ [][NextWords]_vars

\* C25: a terminator keyword, in whatever letter case, is never a part of
\* the script, and it ends the request only when at least one part has been
\* collected
C25_TerminatorNeverAPart ==
    /\ \A i \in 1..Len(roteiro_partes) : Upper(roteiro_partes[i]) \notin DoneWords
    /\ \A i \in 1..Len(script) : Upper(script[i]) \notin DoneWords
    /\ script_by = "terminator" => Len(roteiro_partes) > 0

\* the script request has looked at "fim" with nothing collected and is
\* still waiting with an empty accumulator
C25_EarlyTerminatorIgnored ==
    /\ pc = "script" /\ roteiro_partes = <<>>
    /\ \E i \in 1..Len(server) :
          /\ server[i].m.text = "fim"
          /\ <<"script", 0, "wait">> \in server[i].by

C27_NothingAfterMarker ==
    (cancel_flag = "cancelled" /\ pc # "start") => pc = "exit"

\* a cancel keyword during the tags request: the flag file is written and
\* the run has ended
C27_CancelledAtTags ==
    /\ pc = "exit" /\ cancel_flag = "cancelled"
    /\ result = [req |-> Req("tags", 0), kind |-> "cancelled"]

(***************************************************************************)
(* C28: the script request at its timeout                                  *)
(***************************************************************************)
\* C28: when collect_script_multipart ends on its timeout with at least one
\* part and no terminator, the script is the parts joined by newlines and
\* the request counts as received; it ends as a timeout (None) only when no
\* part was collected
C28_TimeoutKeepsParts ==
    /\ script_by = "timeout" =>
          /\ Len(hist.script_in) > 0
          /\ script = JoinedByNewlines(hist.script_in)
          /\ result = [req |-> Req("script", 0), kind |-> "received"]
          /\ pc = "audio"
    /\ (result.req[1] = "script" /\ result.kind = "timeout") =>
          (hist.script_in = <<>> /\ script_by = "none" /\ script = <<>>)

\* two parts and no terminator: the timeout returns both
C28_TwoPartsAtTimeout ==
    script_by = "timeout" /\ script = <<"World", "\n", "Hello">>

(***************************************************************************)
(* C29: media_list.  run_production alone, with an operator who sends      *)
(* photos (some of which cannot be downloaded) and videos.                 *)
(***************************************************************************)
Media == { Msg("me", "", "photo", TRUE), Msg("me", "", "photo", FALSE),
           Msg("me", "", "video", TRUE) }

NextMedia ==
    \/ \E m \in Media : OperatorSend(m)
    \/ ProductionStart
    \/ ProducerCancelCheck
    \/ ProducerNoCheck
    \/ ProducerTimeout
    \/ ProducerPoll
    \/ Render
    \/ Upload

SpecMedia == InitProduction /\ [][NextMedia]_vars

MaxLines == 3

\* TELEGRAM_CHAT_ID split at the commas
AUTHORIZED_CHAT_IDS == {"me"}

Lines ==
    { [head |-> "TITLE:", body |-> "Stalingrad"],
      [head |-> "title:", body |-> ""],
      [head |-> "Title:", body |-> "Stalingrad"],
      [head |-> "DESCRIPTION:", body |-> "about"],
      [head |-> "TAGS:", body |-> "ww2"],
      [head |-> "SCRIPT:", body |-> ""],
      [head |-> "script:", body |-> "words"],
      [head |-> "", body |-> "words"],
      [head |-> "", body |-> ""],
      [head |-> "/start", body |-> ""],
      [head |-> "/status", body |-> ""] }

\* str.upper() on the heads
HeadUpper(h) ==
    CASE h \in {"title:", "Title:"} -> "TITLE:"
      [] h = "script:" -> "SCRIPT:"
      [] OTHER -> h

\* a line that is no section header, as the parser sees it
Plain(line) == IF line.head = "" THEN line.body ELSE line.head

\* str.strip() on lines joined by newlines: the empty lines at both ends go
RECURSIVE StripPieces(_)
StripPieces(ps) ==
    IF ps = <<>> THEN <<>>
    ELSE IF Head(ps) = "" THEN StripPieces(Tail(ps))
    ELSE IF ps[Len(ps)] = "" THEN StripPieces(SubSeq(ps, 1, Len(ps) - 1))
    ELSE ps

\* parse_production_message: the loop over the lines
RECURSIVE ParseFrom(_, _, _, _)
ParseFrom(lines, i, current_section, data) ==
    IF i > Len(lines) THEN data
    ELSE LET line == lines[i]
             h == HeadUpper(line.head)
         IN  CASE h = "TITLE:" ->
                    ParseFrom(lines, i + 1, "title", [data EXCEPT !.title = line.body])
               [] h = "DESCRIPTION:" ->
                    ParseFrom(lines, i + 1, "description",
                              [data EXCEPT !.description = <<line.body>>])
               [] h = "TAGS:" ->
                    ParseFrom(lines, i + 1, "tags", [data EXCEPT !.tags = line.body])
               [] h = "SCRIPT:" ->
                    ParseFrom(lines, i + 1, "script",
                              [data EXCEPT !.script = <<line.body>>])
               [] OTHER ->
                    ParseFrom(lines, i + 1, current_section,
                       CASE current_section = "script" ->
                              [data EXCEPT !.script = Append(@, Plain(line))]
                         [] current_section = "description" ->
                              [data EXCEPT !.description = Append(@, Plain(line))]
                         [] OTHER -> data)

parse_production_message(text) ==
    LET data == ParseFrom(text, 1, "none",
                          [script |-> <<>>, title |-> "", description |-> <<>>,
                           tags |-> ""])
    IN  [data EXCEPT !.script = StripPieces(@), !.description = StripPieces(@)]

\* what the handler does, in order
Sent(text) == [do |-> "send", arg |-> text, data |-> NoData]
Saved(d) == [do |-> "save", arg |-> "pending", data |-> d]
Dispatched(d) == [do |-> "dispatch", arg |-> "create_video", data |-> d]
Json(ok) == [do |-> "json", arg |-> ok, data |-> NoData]

\* a wrong test kept for comparison with Authorized: every chat passes
AuthorizedAny(chat_id) == TRUE

\* chat_id in AUTHORIZED_CHAT_IDS
Authorized(chat_id) == chat_id \in AUTHORIZED_CHAT_IDS

\* text.startswith('TITLE:') or text.startswith('title:')
StartsWithTitle(text) == text # <<>> /\ text[1].head \in {"TITLE:", "title:"}

StartsWith(text, command) == text # <<>> /\ text[1].head = command

\* the branch of a production request; saved: the file was written,
\* status: what the dispatch came back with ("204", "other", "raises")
ProductionRequest(text, saved, status) ==
    LET message_data == parse_production_message(text)
        production_data ==
            [title |-> IF message_data.title = "" THEN "WWII Story"
                       ELSE message_data.title,
             script |-> message_data.script]
    IN  <<Sent("Processing")>> \o
        (IF message_data.script = <<>>
         THEN <<Sent("No script found"), Json("ok")>>
         ELSE IF ~saved THEN <<Json("error")>>
         ELSE <<Saved(production_data), Dispatched(production_data),
                Sent(IF status = "204" THEN "Production Started"
                     ELSE "Failed to start production"),
                Json("ok")>>)

\* webhook: everything the handler does for one update
Handle(update, saved, status) ==
    CASE update.kind = "broken" -> <<Json("error")>>
      [] update.kind = "edited" -> <<Json("ok")>>
      [] ~Authorized(update.chat) -> <<Sent("Unauthorized access"), Json("ok")>>
      [] StartsWith(update.text, "/start") -> <<Sent("How to create a video"), Json("ok")>>
      [] StartsWith(update.text, "/status") -> <<Sent("Status check not yet implemented"), Json("ok")>>
      [] StartsWithTitle(update.text) -> ProductionRequest(update.text, saved, status)
      [] OTHER -> <<Sent("Unknown command"), Json("ok")>>

\* somebody writes one more line of a message
WriteLine ==
    \E line \in Lines :
        /\ pc = "webhook"
        /\ IF hook.update.kind = "none"
           THEN /\ Len(hook.text) < MaxLines
                /\ hook' = [hook EXCEPT !.text = Append(@, line)]
           ELSE hook' = [HookInit EXCEPT !.text = <<line>>]
        /\ UNCHANGED <<server, next_id, collector, telegram, cancel_flag, pc, seg,
                       loc, clock, roteiro_partes, result, script, script_by,
                       hist, exit_code, wait, tts, segmenter, youtube>>

\* the transport posts an update and the handler runs: a text message, a
\* message without text (photo), an update without a message (edited), or
\* a body that is no JSON (broken)
Webhook ==
    \E kind \in {"text", "photo", "edited", "broken"}, chat \in {"me", "other"},
       saved \in BOOLEAN, status \in {"204", "other", "raises"} :
        /\ pc = "webhook"
        /\ hook.update.kind = "none"
        /\ (kind = "text") = (hook.text # <<>>)
        /\ LET update == [kind |-> kind, chat |-> chat, text |-> hook.text]
           IN  hook' = [hook EXCEPT !.update = update,
                                    !.log = Handle(update, saved, status)]
        /\ UNCHANGED <<server, next_id, collector, telegram, cancel_flag, pc, seg,
                       loc, clock, roteiro_partes, result, script, script_by,
                       hist, exit_code, wait, tts, segmenter, youtube>>

InitWebhook ==
    /\ server = <<>>
    /\ next_id = 1
    /\ collector = [update_offset |-> 0, cancelled |-> FALSE]
    /\ telegram = [update_offset |-> 0, cancelled |-> FALSE]
    /\ cancel_flag = "absent"
    /\ pc = "webhook"
    /\ seg = 1
    /\ loc = "head"
    /\ clock = "start"
    /\ roteiro_partes = <<>>
    /\ result = [req |-> Req("none", 0), kind |-> "none"]
    /\ script = <<>>
    /\ script_by = "none"
    /\ hist = HistInit
    /\ exit_code = -1
    /\ wait = WaitInit
    /\ hook = HookInit
    /\ tts = TtsInit
    /\ segmenter = SegmenterInit
    /\ youtube = YoutubeInit

NextWebhook ==
    \/ WriteLine
    \/ Webhook

SpecWebhook == InitWebhook /\ [][NextWebhook]_vars

\* the places of the log where the handler did this
Did(do) == { i \in 1..Len(hook.log) : hook.log[i].do = do }

\* C30: the handler dispatches the workflow only for a message of an
\* authorized chat whose text starts with a title header and has a script,
\* and only after it saved the production request it dispatches; for an
\* unauthorized chat it only replies 'Unauthorized access'; and whatever
\* happens, the last thing it does, once, is the JSON reply
C30_DispatchOnlyWhenAllowed ==
    hook.update.kind # "none" =>
        /\ \A i \in Did("dispatch") :
              /\ hook.update.kind = "text"
              /\ hook.update.chat \in AUTHORIZED_CHAT_IDS
              /\ hook.update.text[1].head \in {"TITLE:", "title:"}
              /\ \E k \in 1..Len(hook.update.text) :
                    /\ hook.update.text[k].head \in {"SCRIPT:", "script:"}
                    /\ \E n \in k..Len(hook.update.text) :
                          /\ hook.update.text[n].body # "" \/ hook.update.text[n].head \in {"/start", "/status"}
                          /\ \A j \in (k+1)..n :
                                hook.update.text[j].head \in {"", "/start", "/status"}
              /\ hook.log[i].data.script # <<>>
              /\ \E j \in 1..(i - 1) :
                    hook.log[j].do = "save" /\ hook.log[j].data = hook.log[i].data
        /\ (hook.update.kind \in {"text", "photo"}
              /\ hook.update.chat \notin AUTHORIZED_CHAT_IDS)
            => hook.log = <<Sent("Unauthorized access"), Json("ok")>>
        /\ Did("json") = {Len(hook.log)}

\* a production request of three lines was saved and dispatched
C30_Dispatched ==
    /\ hook.update.chat = "me"
    /\ Len(hook.update.text) = 3
    /\ hook.update.text[2] = [head |-> "SCRIPT:", body |-> ""]
    /\ Did("save") = {2}
    /\ Did("dispatch") = {3}
    /\ hook.log[4] = Sent("Failed to start production")

(***************************************************************************)
(* generate_video.py: criar_audio and criar_audio_async.  tts.file is the  *)
(* output file: "missing", "old" (left by an earlier run), "partial",      *)
(* "empty" or "audio".                                                     *)
(***************************************************************************)
\* range(3)
Tentativas == 3

\* a wrong test kept for comparison with SleepDue: a pause after every
\* failure
SleepAlways(tentativa) == TRUE

\* if tentativa < 2: await asyncio.sleep(10)
SleepDue(tentativa) == tentativa < 2

\* what communicate.save under wait_for can do: write the audio, return
\* with an empty file, run into the timeout, raise before it wrote
\* anything ("error") or after it wrote a part ("broken")
SaveOutcomes == {"ok", "empty", "timeout", "error", "broken"}

\* the output file after one call of communicate.save
FileAfter(file, outcome) ==
    CASE outcome = "ok" -> "audio"
      [] outcome = "empty" -> "empty"
      [] outcome \in {"timeout", "broken"} -> "partial"
      [] OTHER -> file

\* criar_audio is called
CriarAudio ==
    /\ pc = "tts" /\ tts.pc = "idle"
    /\ tts' = [tts EXCEPT !.pc = "attempt"]
    /\ UNCHANGED <<server, next_id, collector, telegram, cancel_flag, pc, seg,
                   loc, clock, roteiro_partes, result, script, script_by,
                   hist, exit_code, wait, hook, segmenter, youtube>>

\* criar_audio_async: one round of the loop up to its return, its pause or
\* the end of the loop, where it raises
Tentativa ==
    \E outcome \in SaveOutcomes :
        /\ pc = "tts" /\ tts.pc = "attempt"
        /\ tts' = [tts EXCEPT
                     !.file = FileAfter(@, outcome),
                     !.log = Append(@, outcome),
                     !.pc = CASE outcome \in {"ok", "empty"} -> "returned"
                              [] SleepDue(tts.tentativa) -> "sleep"
                              [] tts.tentativa + 1 < Tentativas -> "next"
                              [] OTHER -> "raised"]
        /\ UNCHANGED <<server, next_id, collector, telegram, cancel_flag, pc, seg,
                       loc, clock, roteiro_partes, result, script, script_by,
                       hist, exit_code, wait, hook, segmenter, youtube>>

\* criar_audio_async: asyncio.sleep(10) is over (or there was none) and
\* the loop goes round
ProximaTentativa ==
    /\ pc = "tts" /\ tts.pc \in {"sleep", "next"}
    /\ tts' = [tts EXCEPT
                 !.log = IF tts.pc = "sleep" THEN Append(@, "sleep") ELSE @,
                 !.tentativa = @ + 1,
                 !.pc = IF tts.tentativa + 1 < Tentativas THEN "attempt"
                        ELSE "raised"]
    /\ UNCHANGED <<server, next_id, collector, telegram, cancel_flag, pc, seg,
                   loc, clock, roteiro_partes, result, script, script_by,
                   hist, exit_code, wait, hook, segmenter, youtube>>

\* criar_audio after criar_audio_async returned: the test of the file
EdgeReturned ==
    /\ pc = "tts" /\ tts.pc = "returned"
    /\ tts' = [tts EXCEPT !.pc = "done",
                          !.ret = IF tts.file \in {"audio", "old", "partial"}
                                  THEN "output_file" ELSE "None"]
    /\ UNCHANGED <<server, next_id, collector, telegram, cancel_flag, pc, seg,
                   loc, clock, roteiro_partes, result, script, script_by,
                   hist, exit_code, wait, hook, segmenter, youtube>>

\* criar_audio: the except branch, gTTS; its save writes the file or raises
Fallback ==
    \E saved \in BOOLEAN :
        /\ pc = "tts" /\ tts.pc = "raised"
        /\ tts' = [tts EXCEPT
                     !.pc = "done",
                     !.log = Append(@, IF saved THEN "gtts" ELSE "gtts raises"),
                     !.file = IF saved THEN "audio" ELSE @,
                     !.ret = IF saved THEN "output_file" ELSE "raises"]
        /\ UNCHANGED <<server, next_id, collector, telegram, cancel_flag, pc, seg,
                       loc, clock, roteiro_partes, result, script, script_by,
                       hist, exit_code, wait, hook, segmenter, youtube>>

InitTts ==
    /\ server = <<>>
    /\ next_id = 1
    /\ collector = [update_offset |-> 0, cancelled |-> FALSE]
    /\ telegram = [update_offset |-> 0, cancelled |-> FALSE]
    /\ cancel_flag = "absent"
    /\ pc = "tts"
    /\ seg = 1
    /\ loc = "head"
    /\ clock = "start"
    /\ roteiro_partes = <<>>
    /\ result = [req |-> Req("none", 0), kind |-> "none"]
    /\ script = <<>>
    /\ script_by = "none"
    /\ hist = HistInit
    /\ exit_code = -1
    /\ wait = WaitInit
    /\ hook = HookInit
    /\ \E file \in {"missing", "old"} : tts = [TtsInit EXCEPT !.file = file]
    /\ segmenter = SegmenterInit
    /\ youtube = YoutubeInit

NextTts ==
    \/ CriarAudio
    \/ Tentativa
    \/ ProximaTentativa
    \/ EdgeReturned
    \/ Fallback

SpecTts == InitTts /\ [][NextTts]_vars

\* the entries of the log that are attempts, and those that failed
Attempts == { i \in 1..Len(tts.log) : tts.log[i] \in SaveOutcomes }
Failures == { i \in Attempts : tts.log[i] \notin {"ok", "empty"} }
Pauses == { i \in 1..Len(tts.log) : tts.log[i] = "sleep" }
GttsCalls == { i \in 1..Len(tts.log) : tts.log[i] \in {"gtts", "gtts raises"} }

\* C31: criar_audio_async makes at most 3 attempts, none after a success,
\* pauses only after the first and the second failure, and raises after
\* the third; criar_audio calls gTTS exactly when it raised, and returns
\* the output path whenever an audio file was produced
C31_ThreeAttemptsThenFallback ==
    /\ Cardinality(Attempts) <= 3
    /\ \A i \in Attempts : tts.log[i] \in {"ok", "empty"} => i = Len(tts.log)
    /\ \A i \in Pauses :
          /\ i - 1 \in Failures
          /\ Cardinality({ j \in Failures : j < i }) \in {1, 2}
    /\ \A i \in Failures :
          (Cardinality({ j \in Failures : j <= i }) \in {1, 2} /\ i < Len(tts.log))
              => i + 1 \in Pauses
    /\ (tts.pc = "raised" \/ GttsCalls # {}) <=> Cardinality(Failures) = 3
    /\ Cardinality(GttsCalls) <= 1
    /\ tts.pc = "done" =>
          /\ GttsCalls # {} <=> Cardinality(Failures) = 3
          /\ (tts.ret = "output_file") <=>
                (tts.log[Len(tts.log)] \in {"ok", "gtts"})
          /\ tts.ret = "output_file" => tts.file = "audio"

\* two pauses, three failures of different kinds, then gTTS made the file
C31_FellBackAfterThree ==
    /\ tts.pc = "done"
    /\ tts.log = <<"timeout", "sleep", "error", "sleep", "broken", "gtts">>
    /\ tts.ret = "output_file"

(***************************************************************************)
(* VideoProducer.segment_audio.  Durations are whole milliseconds, as      *)
(* len(audio) gives them; the entries of the list carry them divided by    *)
(* 1000.                                                                   *)
(***************************************************************************)
MaxDuration == 12
MaxSegment == 5

\* a wrong count kept for comparison with num_segments: rounded down
num_segments_floor(total_duration, segment_duration) ==
    total_duration \div segment_duration

\* math.ceil(total_duration / segment_duration)
num_segments(total_duration, segment_duration) ==
    (total_duration + segment_duration - 1) \div segment_duration

\* min(a, b)
Min(a, b) == IF a < b THEN a ELSE b

\* segment_audio is called: the audio is loaded and the number of segments
\* computed and announced
SegmentAudio ==
    \E total_duration \in 0..MaxDuration, segment_duration \in 1..MaxSegment :
        /\ pc = "segment" /\ segmenter.pc = "idle"
        /\ segmenter' = [SegmenterInit EXCEPT
                           !.pc = "loop",
                           !.total_duration = total_duration,
                           !.segment_duration = segment_duration,
                           !.num_segments = num_segments(total_duration,
                                                         segment_duration)]
        /\ UNCHANGED <<server, next_id, collector, telegram, cancel_flag, pc, seg,
                       loc, clock, roteiro_partes, result, script, script_by,
                       hist, exit_code, wait, hook, tts, youtube>>

\* one round of for i in range(num_segments): the slice audio[start:end]
\* is exported and its entry appended
SegmentLoop ==
    /\ pc = "segment" /\ segmenter.pc = "loop"
    /\ segmenter.i < segmenter.num_segments
    /\ LET i == segmenter.i
           start == i * segmenter.segment_duration
           end == Min((i + 1) * segmenter.segment_duration,
                      segmenter.total_duration)
       IN  segmenter' = [segmenter EXCEPT
                           !.i = @ + 1,
                           !.segments = Append(@, [index |-> i + 1,
                                                   duration |-> end - start,
                                                   start_time |-> start,
                                                   end_time |-> end])]
    /\ UNCHANGED <<server, next_id, collector, telegram, cancel_flag, pc, seg,
                   loc, clock, roteiro_partes, result, script, script_by,
                   hist, exit_code, wait, hook, tts, youtube>>

\* the loop is over: return segments
SegmentReturn ==
    /\ pc = "segment" /\ segmenter.pc = "loop"
    /\ segmenter.i >= segmenter.num_segments
    /\ segmenter' = [segmenter EXCEPT !.pc = "done"]
    /\ UNCHANGED <<server, next_id, collector, telegram, cancel_flag, pc, seg,
                   loc, clock, roteiro_partes, result, script, script_by,
                   hist, exit_code, wait, hook, tts, youtube>>

InitSegment ==
    /\ server = <<>>
    /\ next_id = 1
    /\ collector = [update_offset |-> 0, cancelled |-> FALSE]
    /\ telegram = [update_offset |-> 0, cancelled |-> FALSE]
    /\ cancel_flag = "absent"
    /\ pc = "segment"
    /\ seg = 1
    /\ loc = "head"
    /\ clock = "start"
    /\ roteiro_partes = <<>>
    /\ result = [req |-> Req("none", 0), kind |-> "none"]
    /\ script = <<>>
    /\ script_by = "none"
    /\ hist = HistInit
    /\ exit_code = -1
    /\ wait = WaitInit
    /\ hook = HookInit
    /\ tts = TtsInit
    /\ segmenter = SegmenterInit
    /\ youtube = YoutubeInit

NextSegment ==
    \/ SegmentAudio
    \/ SegmentLoop
    \/ SegmentReturn

SpecSegment == InitSegment /\ [][NextSegment]_vars

RECURSIVE SumOfDurations(_)
SumOfDurations(segments) ==
    IF segments = <<>> THEN 0
    ELSE Head(segments).duration + SumOfDurations(Tail(segments))

\* C32: segment_audio returns ceil(D/L) segments with indices 1..n in
\* order, segment i covering [(i-1)*L, min(i*L, D)); consecutive segments
\* are contiguous, every length is in (0, L], and the lengths sum to D
C32_ExactPartition ==
    segmenter.pc = "done" =>
        LET D == segmenter.total_duration
            L == segmenter.segment_duration
            s == segmenter.segments
            n == Len(s)
        IN  /\ n * L >= D
            /\ n > 0 => (n - 1) * L < D
            /\ \A i \in 1..n :
                  /\ s[i].index = i
                  /\ s[i].start_time = (i - 1) * L
                  /\ s[i].end_time = IF i * L < D THEN i * L ELSE D
                  /\ s[i].duration = s[i].end_time - s[i].start_time
                  /\ s[i].duration > 0 /\ s[i].duration <= L
                  /\ i < n => s[i].end_time = s[i + 1].start_time
            /\ SumOfDurations(s) = D

\* an audio of 11 ms cut into pieces of 4 ms: the last piece is shorter
C32_ShortLastSegment ==
    /\ segmenter.pc = "done"
    /\ segmenter.total_duration = 11 /\ segmenter.segment_duration = 4
    /\ Len(segmenter.segments) = 3
    /\ segmenter.segments[3].duration = 3

(***************************************************************************)
(* VideoProducer.upload_to_youtube.  An error text is a sequence of words. *)
(***************************************************************************)
ErrorWords == {"Forbidden", "permissions", "quota", "exceeded"}

ErrorTexts ==
    { <<w>> : w \in ErrorWords } \cup
    { <<v, w>> : v \in ErrorWords, w \in ErrorWords }

\* str.lower() on the words of an error text
LowerWord(w) == IF w = "Forbidden" THEN "forbidden" ELSE w

\* sub in w, on the words of an error text
Within(sub, w) ==
    \/ sub = w
    \/ sub = "permission" /\ w = "permissions"

\* a wrong test kept for comparison with IsPermissionProblem: every
\* failure counts as one
IsAnyProblem(error_msg) == TRUE

\* 'forbidden' in error_msg.lower() or 'permission' in error_msg.lower()
IsPermissionProblem(error_msg) ==
    \E k \in 1..Len(error_msg) :
        \/ Within("forbidden", LowerWord(error_msg[k]))
        \/ Within("permission", LowerWord(error_msg[k]))

Notice(what, detail) == [what |-> what, detail |-> detail]

\* upload_to_youtube is called and announces the upload
UploadToYoutube ==
    \E thumbnail_path \in {"none", "missing", "file"},
       before \in {<<>>, <<"earlier video">>} :
        /\ pc = "youtube" /\ youtube.pc = "idle"
        /\ youtube' = [YoutubeInit EXCEPT
                         !.pc = "video",
                         !.thumbnail_path = thumbnail_path,
                         !.before = before,
                         !.pending_thumbs = before,
                         !.log = <<Notice("Uploading to YouTube", <<>>)>>]
        /\ UNCHANGED <<server, next_id, collector, telegram, cancel_flag, pc, seg,
                       loc, clock, roteiro_partes, result, script, script_by,
                       hist, exit_code, wait, hook, tts, segmenter>>

\* the credentials, the insert request and its chunks: with the video
\* uploaded and no thumbnail file to send the function returns here; a
\* failure is reported and raised again
VideoUpload ==
    \E ok \in BOOLEAN, e \in ErrorTexts :
        /\ pc = "youtube" /\ youtube.pc = "video"
        /\ youtube' =
             CASE ~ok ->
                    [youtube EXCEPT !.pc = "done", !.ret = "raises",
                                    !.error_msg = e,
                                    !.log = Append(@, Notice("YouTube upload failed", e))]
               [] youtube.thumbnail_path = "file" ->
                    [youtube EXCEPT !.pc = "thumbnail"]
               [] OTHER ->
                    [youtube EXCEPT !.pc = "done", !.ret = "url",
                                    !.log = Append(@, Notice("VIDEO PUBLISHED",
                                                            <<"automatic thumbnail">>))]
        /\ UNCHANGED <<server, next_id, collector, telegram, cancel_flag, pc, seg,
                       loc, clock, roteiro_partes, result, script, script_by,
                       hist, exit_code, wait, hook, tts, segmenter>>

\* thumbnails().set(...).execute() and what follows it up to return url
ThumbnailUpload ==
    \E ok \in BOOLEAN, e \in ErrorTexts :
        /\ pc = "youtube" /\ youtube.pc = "thumbnail"
        /\ youtube' =
             CASE ok ->
                    [youtube EXCEPT !.pc = "done", !.ret = "url",
                                    !.log = Append(@, Notice("VIDEO PUBLISHED",
                                                            <<"thumbnail applied">>))]
               [] IsPermissionProblem(e) ->
                    [youtube EXCEPT !.pc = "done", !.ret = "url",
                                    !.error_msg = e,
                                    !.log = Append(@, Notice("VIDEO PUBLISHED",
                                                            <<"Thumbnail NOT uploaded">>)),
                                    !.pending_thumbs = Append(@, "video")]
               [] OTHER ->
                    [youtube EXCEPT !.pc = "done", !.ret = "url",
                                    !.error_msg = e,
                                    !.log = Append(@, Notice("VIDEO PUBLISHED",
                                                     <<"Thumbnail upload failed">> \o e))]
        /\ UNCHANGED <<server, next_id, collector, telegram, cancel_flag, pc, seg,
                       loc, clock, roteiro_partes, result, script, script_by,
                       hist, exit_code, wait, hook, tts, segmenter>>

InitYoutube ==
    /\ server = <<>>
    /\ next_id = 1
    /\ collector = [update_offset |-> 0, cancelled |-> FALSE]
    /\ telegram = [update_offset |-> 0, cancelled |-> FALSE]
    /\ cancel_flag = "absent"
    /\ pc = "youtube"
    /\ seg = 1
    /\ loc = "head"
    /\ clock = "start"
    /\ roteiro_partes = <<>>
    /\ result = [req |-> Req("none", 0), kind |-> "none"]
    /\ script = <<>>
    /\ script_by = "none"
    /\ hist = HistInit
    /\ exit_code = -1
    /\ wait = WaitInit
    /\ hook = HookInit
    /\ tts = TtsInit
    /\ segmenter = SegmenterInit
    /\ youtube = YoutubeInit

NextYoutube ==
    \/ UploadToYoutube
    \/ VideoUpload
    \/ ThumbnailUpload

SpecYoutube == InitYoutube /\ [][NextYoutube]_vars

\* the notices of this kind, by their place in the log
Noticed(what) == { i \in 1..Len(youtube.log) : youtube.log[i].what = what }

====
